---------------------------- MODULE Spec2Model ----------------------------
(***************************************************************************)
(* AirComix-Server-Python: path resolution, catalog listings and the       *)
(* thumbnail cache.                                                        *)
(*                                                                         *)
(* Text is modelled as a sequence of pieces.  A piece is a short string    *)
(* ("/", "..", "a", ".zip", "%2F", ...) and a path is the concatenation of *)
(* its pieces.  The piece sets are chosen so that no pattern the code      *)
(* searches for (a separator, an archive extension, white space) can       *)
(* straddle two pieces; comparisons of a whole path segment with "." and   *)
(* ".." are made on the concatenated text.                                 *)
(***************************************************************************)
EXTENDS Integers, Sequences, FiniteSets, TLC

VARIABLES
    requested_path,   \* the path handed to PathUtils / the request handler
    symlinked,        \* whether <root>/a is a symbolic link that leaves the root
    archive,          \* the archive file handed to ArchiveService
    rar_available,    \* RARFILE_AVAILABLE: whether the rarfile library was importable
    directory,        \* the directory handed to FileSystemService.list_directory
    decoding,         \* the text handed to EncodingUtils, the detector's verdict, the codecs
    call,             \* the last function applied ("none" before the first)
    result,           \* what that function returned
    fs,               \* the library: root, series folder and archive files
    thumbs,           \* the <key>.jpg files of the cache directory
    mapping,          \* mapping.json
    asset_present,    \* whether the bundled images/aircomix.jpg exists
    clock,            \* time.time() and the clock behind st_mtime
    events,           \* watchdog events scheduled on the loop and not handled yet
    sweeps,           \* _cleanup_thumbnails_delayed tasks sleeping
    last,             \* the last completed ThumbnailService / watcher operation
    watcher,          \* the fields of the FileWatcherService
    observers,        \* the Observer objects created so far, each created, started or stopped
    manga_root_exists, \* whether the watched directory exists
    tasks,            \* coroutines handed to the loop by the observer thread, in order
    timers,           \* _cleanup_thumbnails_delayed tasks of the watcher, sleeping or due
    dispatched,       \* events delivered so far, and the deletions among them that passed the filter
    swept,            \* sweeps that deletions have caused so far
    event,            \* the event handed to the event filter
    coros             \* the get_or_create_thumbnail calls in flight, one per caller

requests == <<requested_path, symlinked, archive, rar_available, directory, decoding, coros>>
watcher_vars == <<watcher, observers, manga_root_exists, tasks, timers, dispatched, swept, event>>
inputs == <<requests, watcher_vars>>
calls == <<call, result>>
cache_vars == <<fs, thumbs, mapping, asset_present, clock, events, sweeps, last>>
vars == <<inputs, calls, cache_vars>>

-----------------------------------------------------------------------------
(* Python str helpers on piece sequences *)

SEP == "/"
BACKSLASH == "\\"
Whitespace == {" "}

RECURSIVE LStrip(_, _)
LStrip(s, chars) ==
    IF s # <<>> /\ Head(s) \in chars THEN LStrip(Tail(s), chars) ELSE s

RECURSIVE RStrip(_, _)
RStrip(s, chars) ==
    IF s # <<>> /\ s[Len(s)] \in chars THEN RStrip(SubSeq(s, 1, Len(s) - 1), chars) ELSE s

Strip(s) == RStrip(LStrip(s, Whitespace), Whitespace)

Replace(s, old, new) == [i \in 1..Len(s) |-> IF s[i] = old THEN new ELSE s[i]]

\* while '//' in path: path = path.replace('//', '/')
RECURSIVE CollapseSlashes(_)
CollapseSlashes(s) ==
    IF Len(s) < 2 THEN s
    ELSE IF s[1] = SEP /\ s[2] = SEP THEN CollapseSlashes(Tail(s))
    ELSE <<s[1]>> \o CollapseSlashes(Tail(s))

StartsWith(s, p) == Len(p) <= Len(s) /\ SubSeq(s, 1, Len(p)) = p

EndsWith(s, p) == Len(p) <= Len(s) /\ SubSeq(s, Len(s) - Len(p) + 1, Len(s)) = p

\* str.lower() on one piece
LowerPiece(c) ==
    CASE c = ".ZIP" -> ".zip"
      [] c = ".CBZ" -> ".cbz"
      [] c = ".RAR" -> ".rar"
      [] c = ".CBR" -> ".cbr"
      [] c = "JPG" -> "jpg"
      [] c = ".JPG" -> ".jpg"
      [] c = ".DS_Store" -> ".ds_store"
      [] c = "__MACOSX" -> "__macosx"
      [] c = "ZIP" -> "zip"
      [] c = "A" -> "a"
      [] c = "B" -> "b"
      [] OTHER -> c

Lower(s) == [i \in 1..Len(s) |-> LowerPiece(s[i])]

\* str.split('/')
RECURSIVE Split(_)
Split(s) ==
    IF \A i \in 1..Len(s) : s[i] # SEP THEN <<s>>
    ELSE LET k == CHOOSE i \in 1..Len(s) : s[i] = SEP /\ \A j \in 1..(i - 1) : s[j] # SEP
         IN  <<SubSeq(s, 1, k - 1)>> \o Split(SubSeq(s, k + 1, Len(s)))

\* '/'.join(comps)
RECURSIVE Join(_)
Join(comps) ==
    IF comps = <<>> THEN <<>>
    ELSE IF Len(comps) = 1 THEN comps[1]
    ELSE comps[1] \o <<SEP>> \o Join(Tail(comps))

\* the text of one path segment
RECURSIVE Text(_)
Text(seg) == IF seg = <<>> THEN "" ELSE Head(seg) \o Text(Tail(seg))

\* urllib.parse.unquote on one piece
UnquotePiece(c) ==
    CASE c = "%2F" -> <<"/">>
      [] c = "%2E" -> <<".">>
      [] c = "a%2Fa" -> <<"a", "/", "a">>
      [] c = "%252F" -> <<"%2F">>
      [] c = "a%252Fa" -> <<"a%2Fa">>
      [] OTHER -> <<c>>

RECURSIVE unquote(_)
unquote(s) == IF s = <<>> THEN <<>> ELSE UnquotePiece(Head(s)) \o unquote(Tail(s))

-----------------------------------------------------------------------------
(* posixpath.normpath, as app/utils/path.py calls it *)

RECURSIVE NormComps(_, _, _)
NormComps(comps, new_comps, initial_slashes) ==
    IF comps = <<>> THEN new_comps
    ELSE LET comp == Head(comps)
             rest == Tail(comps)
         IN  IF Text(comp) \in {"", "."} THEN NormComps(rest, new_comps, initial_slashes)
             ELSE IF \/ Text(comp) # ".."
                     \/ (~initial_slashes /\ new_comps = <<>>)
                     \/ (new_comps # <<>> /\ Text(new_comps[Len(new_comps)]) = "..")
                  THEN NormComps(rest, Append(new_comps, comp), initial_slashes)
             ELSE IF new_comps # <<>>
                  THEN NormComps(rest, SubSeq(new_comps, 1, Len(new_comps) - 1), initial_slashes)
             ELSE NormComps(rest, new_comps, initial_slashes)

normpath(path) ==
    IF path = <<>> THEN <<".">>
    ELSE LET initial_slashes == Head(path) = SEP
             joined == Join(NormComps(Split(path), <<>>, initial_slashes))
             out == IF initial_slashes THEN <<SEP>> \o joined ELSE joined
         IN  IF out = <<>> THEN <<".">> ELSE out

-----------------------------------------------------------------------------
(* The library on disk, as far as path resolution reads it.  An absolute    *)
(* path is the sequence of the texts of its segments; the library root is   *)
(* /a, and /a/a may be a symbolic link to /etc.                             *)

manga_root == <<"a">>
SymlinkAt == <<"a", "a">>
SymlinkTarget == <<"etc">>

\* the segments pathlib keeps of a path string
RECURSIVE Parts(_)
Parts(comps) ==
    IF comps = <<>> THEN <<>>
    ELSE IF Text(Head(comps)) \in {"", "."} THEN Parts(Tail(comps))
    ELSE <<Text(Head(comps))>> \o Parts(Tail(comps))

\* pathlib: base / rel  (an absolute rel replaces base)
PathJoin(base, rel) ==
    IF rel # <<>> /\ Head(rel) = SEP THEN Parts(Split(rel)) ELSE base \o Parts(Split(rel))

\* Path.resolve(): ".." and symbolic links resolved against the file system
RECURSIVE Walk(_, _)
Walk(cur, rest) ==
    IF rest = <<>> THEN cur
    ELSE IF Head(rest) = ".."
         THEN Walk(IF cur = <<>> THEN cur ELSE SubSeq(cur, 1, Len(cur) - 1), Tail(rest))
    ELSE LET nxt == Append(cur, Head(rest))
         IN  Walk(IF symlinked /\ nxt = SymlinkAt THEN SymlinkTarget ELSE nxt, Tail(rest))

resolve(abs) == Walk(<<>>, abs)

\* Path.relative_to(base) succeeds
relative_to(full, base) == StartsWith(full, base)

-----------------------------------------------------------------------------
(* app/utils/path.py *)

normalize_path(path) ==
    IF path = <<>> THEN <<>>
    ELSE LET stripped == Strip(path)
             relative == LStrip(stripped, {SEP})
             slashed == Replace(relative, BACKSLASH, SEP)
             collapsed == CollapseSlashes(slashed)
             trimmed == RStrip(collapsed, {SEP})
             normed == normpath(trimmed)
         IN  IF Text(normed) = "." THEN <<>> ELSE normed

is_safe_path(base_path, requested) ==
    LET decoded_path == unquote(requested)
        normalized_path == normalize_path(decoded_path)
    IN  IF normalized_path = <<>> THEN TRUE
        ELSE IF decoded_path # <<>> /\ Head(decoded_path) = SEP THEN FALSE
        ELSE relative_to(resolve(PathJoin(base_path, normalized_path)), resolve(base_path))

archive_extensions == <<".zip", ".cbz", ".rar", ".cbr">>

\* str.find for a one-piece pattern: the first index, 0 when absent
Find(s, pat) ==
    IF \E i \in 1..Len(s) : s[i] = pat
    THEN CHOOSE i \in 1..Len(s) : s[i] = pat /\ \A j \in 1..(i - 1) : s[j] # pat
    ELSE 0

RECURSIVE ExtractLoop(_, _)
ExtractLoop(full_path, k) ==
    IF k > Len(archive_extensions) THEN <<full_path, <<>>>>
    ELSE LET lower_path == Lower(full_path)
             ext_pos == Find(lower_path, LowerPiece(archive_extensions[k]))
         IN  IF ext_pos # 0
             THEN <<SubSeq(full_path, 1, ext_pos),
                    LStrip(SubSeq(full_path, ext_pos + 1, Len(full_path)), {SEP})>>
             ELSE ExtractLoop(full_path, k + 1)

extract_archive_and_image_paths(full_path) == ExtractLoop(normalize_path(full_path), 1)

-----------------------------------------------------------------------------
(* app/api/handlers.py *)

_validate_and_normalize_path(path) ==
    IF path = <<>> \/ path = <<SEP>> THEN [raised |-> "none", path |-> <<>>]
    ELSE LET p == IF Head(path) = SEP THEN Tail(path) ELSE path
         IN  IF ~is_safe_path(manga_root, p)
             THEN [raised |-> "PathTraversalError", path |-> <<>>]
             ELSE [raised |-> "none", path |-> normalize_path(p)]

_is_archive_image_request(path) ==
    LET split == extract_archive_and_image_paths(path)
    IN  split[1] # <<>> /\ split[2] # <<>>

-----------------------------------------------------------------------------
(* Text order.  Python compares str values code point by code point.        *)

Codes(c) ==
    CASE c = "/" -> <<47>>
      [] c = "a" -> <<97>>
      [] c = "b" -> <<98>>
      [] c = "A" -> <<65>>
      [] c = "B" -> <<66>>
      [] c = "2" -> <<50>>
      [] c = "10" -> <<49, 48>>
      [] c = ".jpg" -> <<46, 106, 112, 103>>
      [] c = ".JPG" -> <<46, 74, 80, 71>>
      [] c = ".png" -> <<46, 112, 110, 103>>
      [] c = ".txt" -> <<46, 116, 120, 116>>
      [] c = ".zip" -> <<46, 122, 105, 112>>
      [] c = ".cbz" -> <<46, 99, 98, 122>>
      [] c = ".rar" -> <<46, 114, 97, 114>>
      [] c = ".ZIP" -> <<46, 90, 73, 80>>
      [] c = ".DS_Store" -> <<46, 68, 83, 95, 83, 116, 111, 114, 101>>
      [] c = ".ds_store" -> <<46, 100, 115, 95, 115, 116, 111, 114, 101>>
      [] c = "__MACOSX" -> <<95, 95, 77, 65, 67, 79, 83, 88>>
      [] c = "__macosx" -> <<95, 95, 109, 97, 99, 111, 115, 120>>

RECURSIVE CodePoints(_)
CodePoints(s) == IF s = <<>> THEN <<>> ELSE Codes(Head(s)) \o CodePoints(Tail(s))

\* u < v for sequences of integers, as Python orders str and tuple values
RECURSIVE LexLess(_, _)
LexLess(u, v) ==
    IF v = <<>> THEN FALSE
    ELSE IF u = <<>> THEN TRUE
    ELSE IF Head(u) # Head(v) THEN Head(u) < Head(v)
    ELSE LexLess(Tail(u), Tail(v))

\* list.sort(key=...): stable, ascending.  key is a function on the elements.
RECURSIVE SortedByKey(_, _)
SortedByKey(s, key) ==
    IF s = <<>> THEN <<>>
    ELSE LET front == SortedByKey(SubSeq(s, 1, Len(s) - 1), key)
             x == s[Len(s)]
             after == {i \in 1..Len(front) : LexLess(key[x], key[front[i]])}
             pos == IF after = {} THEN Len(front) + 1
                    ELSE CHOOSE i \in after : \A j \in after : i <= j
         IN  SubSeq(front, 1, pos - 1) \o <<x>> \o SubSeq(front, pos, Len(front))

Elements(s) == {s[i] : i \in 1..Len(s)}

-----------------------------------------------------------------------------
(* app/models/config.py *)

hidden_files == {".", "..", "@eaDir", "Thumbs.db", ".DS_Store", ".thumbnails"}
hidden_patterns == {"__MACOSX"}
image_extensions == {"jpg", "jpeg", "gif", "png", "tif", "tiff", "bmp"}
archive_extension_names == {"zip", "cbz", "rar", "cbr"}

\* the pieces that are a dot followed by letters
DotPieces == {".jpg", ".JPG", ".png", ".txt", ".zip", ".cbz", ".rar", ".cbr",
              ".ZIP", ".CBZ", ".RAR", ".CBR", ".DS_Store", ".ds_store", ".thumbnails",
              ".json"}

\* pathlib: Path(filename).name
PathName(filename) ==
    LET parts == SelectSeq(Split(filename), LAMBDA c : c # <<>>)
    IN  IF parts = <<>> THEN <<>> ELSE parts[Len(parts)]

\* pathlib: Path(filename).suffix -- from the last dot of the name, unless
\* that dot is the first character of the name
suffix(filename) ==
    LET name == PathName(filename)
        dots == {i \in 1..Len(name) : name[i] \in DotPieces}
    IN  IF dots = {} THEN <<>>
        ELSE LET k == CHOOSE i \in dots : \A j \in dots : j <= i
             IN  IF k > 1 THEN SubSeq(name, k, Len(name)) ELSE <<>>

\* suffix.lower().lstrip('.') in extensions
HasExtensionIn(filename, extensions) ==
    Text(Lower(suffix(filename))) \in {"." \o e : e \in extensions}

is_image_file(filename) == HasExtensionIn(filename, image_extensions)

is_archive_file(filename) == HasExtensionIn(filename, archive_extension_names)

is_supported_file(filename) == is_image_file(filename) \/ is_archive_file(filename)

is_hidden_file(filename) ==
    \/ Text(filename) \in hidden_files
    \/ \E i \in 1..Len(filename) : filename[i] \in hidden_patterns

-----------------------------------------------------------------------------
(* app/utils/encoding.py: entry.filename is a str that zipfile / rarfile     *)
(* decoded, so filename.encode('utf-8') succeeds and the name is returned.   *)

convert_filename_encoding(filename) == IF filename = <<>> THEN <<>> ELSE filename

(* The same functions on any text.  A text is [kind, body]: bytes are a      *)
(* sequence of byte values, a str is a sequence of code points.  decoding   *)
(* = [text, detected, source_encoding, fallback_encodings].                  *)

Decoded(chars) == [raised |-> "none", value |-> chars]
Raising(exception) == [raised |-> exception, value |-> <<>>]

\* the character a KS X 1001 / CP949 byte pair stands for
PairChar(lead, trail) ==
    CASE lead = 176 /\ trail = 161 -> 44032
      [] lead = 176 /\ trail = 176 -> 44057
      [] lead = 161 /\ trail = 161 -> 12288
      [] lead = 161 /\ trail = 176 -> 8220
      [] lead = 176 /\ trail = 97 -> 52923
      [] lead = 161 /\ trail = 97 -> 51394

\* bytes.decode('euc-kr') / bytes.decode('cp949'): ASCII bytes and byte pairs
RECURSIVE DecodePairs(_, _)
DecodePairs(bs, trails) ==
    IF bs = <<>> THEN Decoded(<<>>)
    ELSE IF Head(bs) < 128
    THEN LET rest == DecodePairs(Tail(bs), trails)
         IN  IF rest.raised = "none" THEN Decoded(<<Head(bs)>> \o rest.value) ELSE rest
    ELSE IF Len(bs) >= 2 /\ bs[1] \in {161, 176} /\ bs[2] \in trails
    THEN LET rest == DecodePairs(Tail(Tail(bs)), trails)
         IN  IF rest.raised = "none"
             THEN Decoded(<<PairChar(bs[1], bs[2])>> \o rest.value) ELSE rest
    ELSE Raising("UnicodeDecodeError")

\* bytes.decode(encoding): codec names are looked up without regard to case
decode(bs, encoding) ==
    CASE encoding \in {"UTF-8", "utf-8"} ->
             IF \A i \in 1..Len(bs) : bs[i] < 128 THEN Decoded(bs)
             ELSE Raising("UnicodeDecodeError")
      [] encoding \in {"EUC-KR", "euc-kr"} -> DecodePairs(bs, {161, 176})
      [] encoding \in {"CP949", "cp949"} -> DecodePairs(bs, {161, 176, 97})
      [] encoding = "latin1" -> Decoded(bs)
      [] encoding = "undefined" -> Raising("UnicodeError")
      [] OTHER -> Raising("LookupError")

\* text.decode('utf-8', errors='ignore')
decode_ignore(bs) == Decoded(SelectSeq(bs, LAMBDA b : b < 128))

\* [settings.source_encoding] + fallback_encodings, duplicates removed in order
RECURSIVE unique_encodings(_, _)
unique_encodings(encodings_to_try, seen) ==
    IF encodings_to_try = <<>> THEN <<>>
    ELSE IF Head(encodings_to_try) \in seen
    THEN unique_encodings(Tail(encodings_to_try), seen)
    ELSE <<Head(encodings_to_try)>>
             \o unique_encodings(Tail(encodings_to_try), seen \cup {Head(encodings_to_try)})

\* for encoding in unique_encodings: ... except (UnicodeDecodeError, LookupError)
RECURSIVE TryEncodings(_, _)
TryEncodings(bs, encodings) ==
    IF encodings = <<>> THEN decode_ignore(bs)
    ELSE LET decoded == decode(bs, Head(encodings))
         IN  IF decoded.raised \in {"UnicodeDecodeError", "LookupError"}
             THEN TryEncodings(bs, Tail(encodings))
             ELSE decoded

safe_decode(text, fallback_encodings) ==
    IF text.body = <<>> THEN Decoded(<<>>)
    ELSE IF text.kind = "str" THEN Decoded(text.body)
    ELSE TryEncodings(text.body,
                      unique_encodings(<<decoding.source_encoding>> \o fallback_encodings, {}))

detect_and_convert_encoding(text) ==
    IF text.body = <<>> THEN Decoded(<<>>)
    ELSE IF text.kind = "str" THEN Decoded(text.body)
    ELSE LET detected == decoding.detected
             guess == decode(text.body, detected.encoding)
         IN  IF detected.encoding # "None" /\ detected.confident /\ guess.raised = "none"
             THEN guess
             ELSE safe_decode(text, decoding.fallback_encodings)

\* str.encode('utf-8') fails on lone surrogates only
Surrogate(c) == 55296 <= c /\ c <= 57343

ConvertFilenameEncoding(filename) ==
    IF filename.body = <<>> THEN Decoded(<<>>)
    ELSE IF filename.kind = "str"
    THEN IF \A i \in 1..Len(filename.body) : ~Surrogate(filename.body[i])
         THEN Decoded(filename.body)
         ELSE IF \E i \in 1..Len(filename.body) : filename.body[i] > 255
         THEN Raising("UnicodeEncodeError")
         ELSE detect_and_convert_encoding([kind |-> "bytes", body |-> filename.body])
    ELSE detect_and_convert_encoding(filename)

-----------------------------------------------------------------------------
(* app/services/archive.py.  archive = [exists, name, malformed, entries]:   *)
(* entries are the names infolist() yields, in the container's order; a     *)
(* name ending in "/" is a directory entry.                                 *)

\* a missing value (Python None) is the empty tuple
None == <<>>

entry_is_dir(filename) == filename # <<>> /\ filename[Len(filename)] = SEP

ArchiveError == [raised |-> "ArchiveError", list |-> <<>>]
Listing(names) == [raised |-> "none", list |-> names]

\* _process_zip / _process_rar, then image_files.sort()
ImageFiles(entries) ==
    LET decoded == [i \in 1..Len(entries) |-> convert_filename_encoding(entries[i])]
        kept == {i \in 1..Len(entries) : ~entry_is_dir(entries[i]) /\ is_image_file(decoded[i])}
        RECURSIVE Collect(_)
        Collect(i) ==
            IF i > Len(entries) THEN <<>>
            ELSE (IF i \in kept THEN <<decoded[i]>> ELSE <<>>) \o Collect(i + 1)
    IN  Collect(1)

\* the listing kept in container order
ContainerOrder(names) == names

SortedNames(names) ==
    SortedByKey(names, [n \in Elements(names) |-> CodePoints(n)])

\* the listing that swallows a malformed container
_list_zip_contents_lenient(archive_path) ==
    IF archive_path.malformed THEN Listing(<<>>)
    ELSE Listing(SortedNames(ImageFiles(archive_path.entries)))

_list_zip_contents(archive_path) ==
    IF archive_path.malformed THEN ArchiveError
    ELSE Listing(SortedNames(ImageFiles(archive_path.entries)))

_list_rar_contents(archive_path) ==
    IF ~rar_available THEN Listing(<<>>)
    ELSE IF archive_path.malformed THEN ArchiveError
    ELSE Listing(SortedNames(ImageFiles(archive_path.entries)))

get_file_extension(filename) == Text(Lower(suffix(filename)))

list_archive_contents(archive_path) ==
    IF ~archive_path.exists THEN Listing(<<>>)
    ELSE LET ext == get_file_extension(archive_path.name)
         IN  IF ext \in {".zip", ".cbz"} THEN _list_zip_contents(archive_path)
             ELSE IF ext \in {".rar", ".cbr"} THEN _list_rar_contents(archive_path)
             ELSE Listing(<<>>)

\* zip_file.read(entry): the bytes of the i-th entry of the container
EntryBytes(i) == <<"entry", i>>

\* the entries the matching loop accepts: filename.endswith(file_path) or ==
Matching(archive_path, file_path) ==
    {i \in 1..Len(archive_path.entries) :
        /\ ~entry_is_dir(archive_path.entries[i])
        /\ \/ EndsWith(convert_filename_encoding(archive_path.entries[i]), file_path)
           \/ convert_filename_encoding(archive_path.entries[i]) = file_path}

\* the entries whose decoded name is the name asked for
Named(archive_path, file_path) ==
    {i \in 1..Len(archive_path.entries) :
        /\ ~entry_is_dir(archive_path.entries[i])
        /\ convert_filename_encoding(archive_path.entries[i]) = file_path}

\* the first entry, in container order, of a set of entries
FirstOf(found) ==
    IF found = {} THEN None
    ELSE EntryBytes(CHOOSE i \in found : \A j \in found : i <= j)

_extract_from_zip(archive_path, file_path) ==
    IF archive_path.malformed THEN None
    ELSE FirstOf(Matching(archive_path, file_path))

_extract_from_rar(archive_path, file_path) ==
    IF ~rar_available THEN None
    ELSE IF archive_path.malformed THEN None
    ELSE FirstOf(Matching(archive_path, file_path))

extract_file_from_archive(archive_path, file_path) ==
    IF ~archive_path.exists THEN None
    ELSE LET ext == get_file_extension(archive_path.name)
         IN  IF ext \in {".zip", ".cbz"} THEN _extract_from_zip(archive_path, file_path)
             ELSE IF ext \in {".rar", ".cbr"} THEN _extract_from_rar(archive_path, file_path)
             ELSE None

-----------------------------------------------------------------------------
(* app/services/filesystem.py.  directory = [kind, entries]: what lies at   *)
(* manga_root / normalize_path(path); entries are [name, kind] in the order *)
(* os.listdir returns them.                                                 *)

_is_entry_supported(entry) ==
    IF is_hidden_file(entry.name) THEN FALSE
    ELSE IF entry.kind = "dir" THEN TRUE
    ELSE IF entry.kind = "file" THEN is_supported_file(entry.name)
    ELSE FALSE

\* the sort key without the directories-first component
NameKey(entry) == CodePoints(Lower(entry.name))

\* key=lambda x: (not is_dir, x.lower())
ListingKey(entry) ==
    <<IF entry.kind = "dir" THEN 0 ELSE 1>> \o CodePoints(Lower(entry.name))

list_directory(path) ==
    IF ~is_safe_path(manga_root, path) THEN <<>>
    ELSE IF directory.kind = "missing" THEN <<>>
    ELSE IF directory.kind = "file" THEN <<>>
    ELSE IF directory.kind = "unreadable" THEN <<>>
    ELSE LET filtered_entries == SelectSeq(directory.entries, _is_entry_supported)
             sorted == SortedByKey(filtered_entries,
                                   [e \in Elements(filtered_entries) |-> ListingKey(e)])
         IN  [i \in 1..Len(sorted) |-> sorted[i].name]

-----------------------------------------------------------------------------
(* app/api/handlers.py and app/services/image.py: the request dispatcher.   *)
(* directory describes the node at manga_root / normalized path, archive    *)
(* the file at manga_root / archive part.  A response is the exception      *)
(* that leaves the call, if any, and the status it carries.                 *)

Response(raised, status) == [raised |-> raised, status |-> status]
Success == Response("none", 200)
HTTPException(status_code) == Response("HTTPException", status_code)
FileNotFoundError == Response("FileNotFoundError", 404)
AccessDeniedError == Response("AccessDeniedError", 403)
UnsupportedFileTypeError == Response("UnsupportedFileTypeError", 400)
PathTraversalError == Response("PathTraversalError", 403)

ArchiveAt(archive_path) == [archive EXCEPT !.name = PathName(archive_path)]

stream_image_from_archive(archive_path, image_path) ==
    IF ~archive_path.exists THEN HTTPException(404)
    ELSE LET archive_contents == list_archive_contents(archive_path)
         IN  IF archive_contents.raised # "none" THEN HTTPException(500)
             ELSE IF Text(image_path) \notin {Text(n) : n \in Elements(archive_contents.list)}
             THEN HTTPException(404)
             ELSE IF ~is_image_file(image_path) THEN HTTPException(400)
             ELSE Success

\* try: ... except Exception: raise HTTPException(status_code=500)
Wrapped(response) == IF response.raised # "none" THEN HTTPException(500) ELSE response

\* full_path.is_file() has held when the dispatcher calls this
stream_image(image_path) ==
    IF directory.kind = "missing" THEN HTTPException(404)
    ELSE IF directory.kind # "file" THEN HTTPException(404)
    ELSE Success

_handle_direct_image_request(image_path) == stream_image(image_path)

_handle_archive_image_request(path) ==
    LET split == extract_archive_and_image_paths(path)
    IN  Wrapped(stream_image_from_archive(ArchiveAt(split[1]), split[2]))

handle_archive_listing(archive_path) ==
    LET image_list == list_archive_contents(ArchiveAt(archive_path))
    IN  Wrapped(Response(image_list.raised, 500))

\* directory_path.relative_to(self.manga_root), on the path as written
RelativeToRoot(normalized_path) ==
    IF normalized_path # <<>> /\ Head(normalized_path) = SEP
    THEN LET parts == SelectSeq(Split(normalized_path), LAMBDA c : Text(c) \notin {"", "."})
         IN  IF /\ Len(parts) >= Len(manga_root)
                /\ \A i \in 1..Len(manga_root) : Text(parts[i]) = manga_root[i]
             THEN [raised |-> "none",
                   path |-> Join(SubSeq(parts, Len(manga_root) + 1, Len(parts)))]
             ELSE [raised |-> "ValueError", path |-> <<>>]
    ELSE [raised |-> "none", path |-> normalized_path]

handle_directory_listing(normalized_path) ==
    LET relative_path == RelativeToRoot(normalized_path)
    IN  IF relative_path.raised # "none" THEN Wrapped(AccessDeniedError)
        ELSE LET file_list == list_directory(relative_path.path)
             IN  Wrapped(Success)

handle_request(path) ==
    LET decoded_path == unquote(path)
        validated == _validate_and_normalize_path(decoded_path)
        normalized_path == validated.path
    IN  IF validated.raised # "none" THEN PathTraversalError
        ELSE IF _is_archive_image_request(decoded_path)
        THEN _handle_archive_image_request(decoded_path)
        ELSE IF directory.kind = "file"
        THEN IF is_archive_file(PathName(normalized_path))
             THEN handle_archive_listing(normalized_path)
             ELSE IF is_image_file(PathName(normalized_path))
             THEN _handle_direct_image_request(normalized_path)
             ELSE UnsupportedFileTypeError
        ELSE IF directory.kind \in {"dir", "unreadable"}
        THEN handle_directory_listing(normalized_path)
        ELSE FileNotFoundError

-----------------------------------------------------------------------------
(* The library the thumbnail cache watches: the manga root, one series      *)
(* folder in it and the volumes of that series.                             *)
(*   fs[t] = [exists, mtime, ver]; ver is the content of a volume: 0 when   *)
(*   no image can be taken from it (no image entry, malformed container,    *)
(*   undecodable first image), otherwise the identity of its first image.   *)
(*   thumbs[k] = [exists, mtime, data]: the file <k>.jpg of the cache.      *)
(*   mapping = [exists, doc]: mapping.json and the records it holds.        *)

LibraryRoot == "R"
Series == "R/D"
Volumes == {"R/D/a.zip"}
Nodes == {LibraryRoot, Series} \cup Volumes

VolumeName(t) == <<"a", ".zip">>

\* images are <<source, content>>
NoFile == [exists |-> FALSE, mtime |-> 0, ver |-> 0]
NoThumbnail == [exists |-> FALSE, mtime |-> 0, data |-> None]
NoRecord == [present |-> FALSE, original_path |-> "", created_at |-> 0, file_size |-> 0]

is_file(t) == t \in Volumes /\ fs[t].exists
is_dir(t) == t \in {LibraryRoot, Series} /\ fs[t].exists

\* hashlib.md5(str(target_path).encode()).hexdigest(): one key per path
md5(path) ==
    CASE path = "R" -> "5e40"
      [] path = "R/D" -> "9d5e"
      [] path = "R/D/a.zip" -> "c1f2"

Keys == {md5(t) : t \in Nodes}

_get_thumbnail_path(target_path) == md5(target_path)

\* PIL thumbnail + JPEG encoding of an image
_resize_image(image_data) == <<"JPEG 200x300">> \o image_data

\* _create_thumbnail_from_archive on a container: image_list[0], the bytes
\* extracted under that name, and the thumbnail made of them
FirstImage(archive_path) ==
    LET image_list == list_archive_contents(archive_path)
    IN  IF image_list.raised # "none" \/ image_list.list = <<>> THEN None
        ELSE image_list.list[1]

ImageData(archive_path) ==
    IF FirstImage(archive_path) = None THEN None
    ELSE extract_file_from_archive(archive_path, FirstImage(archive_path))

ThumbnailData(archive_path) ==
    IF ImageData(archive_path) = None THEN None
    ELSE _resize_image(ImageData(archive_path))

AircomixAsset == <<"images/aircomix.jpg", 1>>
DefaultPlaceholder == <<"JPEG 200x300", "AirComix placeholder", 1>>

\* the file the constructor leaves under the root's hash
InitialRootThumbnail ==
    IF asset_present THEN _resize_image(AircomixAsset) ELSE DefaultPlaceholder

EmptyDoc == [k \in Keys |-> NoRecord]
NoMapping == [exists |-> FALSE, doc |-> EmptyDoc]

_load_mapping(m) == IF m.exists THEN m.doc ELSE EmptyDoc

_save_mapping(doc) == [exists |-> TRUE, doc |-> doc]

\* an update that stores its own record alone
_update_mapping_alone(m, thumbnail_hash, target_path) ==
    _save_mapping([EmptyDoc EXCEPT ![thumbnail_hash] =
        [present |-> TRUE,
         original_path |-> target_path,
         created_at |-> clock,
         file_size |-> IF fs[target_path].exists THEN fs[target_path].ver ELSE 0]])

\* an update that keeps a record already present
_update_mapping_once(m, thumbnail_hash, target_path) ==
    IF _load_mapping(m)[thumbnail_hash].present THEN m
    ELSE _save_mapping([_load_mapping(m) EXCEPT ![thumbnail_hash] =
        [present |-> TRUE,
         original_path |-> target_path,
         created_at |-> clock,
         file_size |-> IF fs[target_path].exists THEN fs[target_path].ver ELSE 0]])

_update_mapping(m, thumbnail_hash, target_path) ==
    _save_mapping([_load_mapping(m) EXCEPT ![thumbnail_hash] =
        [present |-> TRUE,
         original_path |-> target_path,
         created_at |-> clock,
         file_size |-> IF fs[target_path].exists THEN fs[target_path].ver ELSE 0]])

_save_thumbnail(th, k, thumbnail_data) ==
    [th EXCEPT ![k] = [exists |-> TRUE, mtime |-> clock, data |-> thumbnail_data]]

\* the validity test that looks at existence only
_is_thumbnail_present(th, k, target_path) ==
    IF ~th[k].exists THEN FALSE
    ELSE IF ~fs[target_path].exists THEN FALSE
    ELSE TRUE

_is_thumbnail_valid(th, k, target_path) ==
    IF ~th[k].exists THEN FALSE
    ELSE IF ~fs[target_path].exists THEN FALSE
    ELSE th[k].mtime >= fs[target_path].mtime

_read_thumbnail(th, k) == th[k].data

\* list_archive_contents, extract_file_from_archive of the first image, resize
_create_thumbnail_from_archive(archive_path) ==
    IF fs[archive_path].ver = 0 THEN None
    ELSE _resize_image(<<archive_path, fs[archive_path].ver>>)

\* S = [thumbs, mapping]; the result adds the data produced
_create_root_folder_thumbnail(S) ==
    LET root_hash == md5(LibraryRoot)
    IN  IF S.thumbs[root_hash].exists
        THEN [thumbs |-> S.thumbs,
              mapping |-> _update_mapping(S.mapping, root_hash, LibraryRoot),
              data |-> S.thumbs[root_hash].data]
        ELSE LET thumbnail_data == IF asset_present THEN _resize_image(AircomixAsset)
                                   ELSE DefaultPlaceholder
             IN  [thumbs |-> _save_thumbnail(S.thumbs, root_hash, thumbnail_data),
                  mapping |-> _update_mapping(S.mapping, root_hash, LibraryRoot),
                  data |-> thumbnail_data]

\* archive_files.sort(key=lambda x: x.name.lower())
ArchiveFilesIn(directory_path) ==
    LET found == {t \in Volumes : is_file(t) /\ is_archive_file(VolumeName(t))}
        RECURSIVE AsSeq(_)
        AsSeq(T) == IF T = {} THEN <<>>
                    ELSE LET t == CHOOSE x \in T : TRUE IN <<t>> \o AsSeq(T \ {t})
    IN  IF directory_path # Series THEN <<>>
        ELSE SortedByKey(AsSeq(found),
                         [t \in found |-> CodePoints(Lower(VolumeName(t)))])

_create_thumbnail_from_directory(S, directory_path) ==
    IF directory_path = LibraryRoot THEN _create_root_folder_thumbnail(S)
    ELSE LET archive_files == ArchiveFilesIn(directory_path)
         IN  [thumbs |-> S.thumbs, mapping |-> S.mapping,
              data |-> IF archive_files = <<>> THEN None
                       ELSE _create_thumbnail_from_archive(archive_files[1])]

\* the result is the cache afterwards, the value returned, and whether the
\* image pipeline (listing, extraction, resize) was entered
get_or_create_thumbnail(S, target_path) ==
    LET k == _get_thumbnail_path(target_path)
        Made(G) ==
            IF G.data # None
            THEN [thumbs |-> _save_thumbnail(G.thumbs, k, G.data),
                  mapping |-> _update_mapping(G.mapping, k, target_path),
                  ret |-> G.data, ran |-> TRUE]
            ELSE [thumbs |-> G.thumbs, mapping |-> G.mapping, ret |-> None, ran |-> TRUE]
    IN  IF _is_thumbnail_valid(S.thumbs, k, target_path)
        THEN [thumbs |-> S.thumbs, mapping |-> S.mapping,
              ret |-> _read_thumbnail(S.thumbs, k), ran |-> FALSE]
        ELSE IF is_file(target_path)
        THEN Made([thumbs |-> S.thumbs, mapping |-> S.mapping,
                   data |-> _create_thumbnail_from_archive(target_path)])
        ELSE IF is_dir(target_path)
        THEN Made(_create_thumbnail_from_directory(S, target_path))
        ELSE [thumbs |-> S.thumbs, mapping |-> S.mapping, ret |-> None, ran |-> FALSE]

\* the sweep that also reclaims stale thumbnails
cleanup_stale_thumbnails(S) ==
    LET doc == _load_mapping(S.mapping)
        kept == {k \in Keys : /\ doc[k].present /\ fs[doc[k].original_path].exists
                              /\ S.thumbs[k].mtime >= fs[doc[k].original_path].mtime}
        unlinked == {k \in Keys : doc[k].present /\ k \notin kept /\ S.thumbs[k].exists}
    IN  [thumbs |-> [k \in Keys |-> IF k \in unlinked THEN NoThumbnail ELSE S.thumbs[k]],
         mapping |-> _save_mapping([k \in Keys |-> IF k \in kept THEN doc[k] ELSE NoRecord]),
         deleted_count |-> Cardinality(unlinked)]

\* the result is the cache afterwards and deleted_count
cleanup_orphaned_thumbnails(S) ==
    LET doc == _load_mapping(S.mapping)
        kept == {k \in Keys : doc[k].present /\ fs[doc[k].original_path].exists}
        unlinked == {k \in Keys : doc[k].present /\ k \notin kept /\ S.thumbs[k].exists}
    IN  [thumbs |-> [k \in Keys |-> IF k \in unlinked THEN NoThumbnail ELSE S.thumbs[k]],
         mapping |-> _save_mapping([k \in Keys |-> IF k \in kept THEN doc[k] ELSE NoRecord]),
         deleted_count |-> Cardinality(unlinked)]

clear_cache(S) == [thumbs |-> [k \in Keys |-> NoThumbnail], mapping |-> NoMapping]

\* what _load_mapping makes of a mapping.json that a failed json.dump left
\* truncated: json.load raises and the loader returns {}
Truncated == [exists |-> TRUE, doc |-> EmptyDoc]

\* the outcomes of _save_mapping: written; open() raised and the file is as
\* it was; json.dump raised after open(..., 'w') had truncated the file
SaveOutcomes == {"written", "refused", "truncated"}

\* cleanup_orphaned_thumbnails when reading or writing mapping.json can fail:
\* load_fails is an exception inside _load_mapping, save one of SaveOutcomes
cleanup_orphaned_thumbnails_io(S, load_fails, save) ==
    LET doc == IF load_fails THEN EmptyDoc ELSE _load_mapping(S.mapping)
        kept == {k \in Keys : doc[k].present /\ fs[doc[k].original_path].exists}
        unlinked == {k \in Keys : doc[k].present /\ k \notin kept /\ S.thumbs[k].exists}
        updated_mapping == [k \in Keys |-> IF k \in kept THEN doc[k] ELSE NoRecord]
    IN  [thumbs |-> [k \in Keys |-> IF k \in unlinked THEN NoThumbnail ELSE S.thumbs[k]],
         mapping |-> CASE save = "written" -> _save_mapping(updated_mapping)
                       [] save = "refused" -> S.mapping
                       [] save = "truncated" -> Truncated,
         deleted_count |-> Cardinality(unlinked)]

-----------------------------------------------------------------------------
(* Inputs *)

BoundedSeq(S, n) == UNION {[1..k -> S] : k \in 0..n}

MaxPathLen == 5
PathPieces == {"/", "..", "a", "a%2Fa", "\\", " "}

MaxSplitLen == 5
SplitPieces == {"/", "a", ".zip", ".cbz", ".rar", ".cbr", ".ZIP"}

\* archive files: names with and without a supported extension, and the
\* entry names a container may hold (a name ending in "/" is a directory)
MaxEntries == 3
ArchiveNames == {<<"a", ".zip">>, <<"a", ".CBZ">>, <<"a", ".rar">>,
                 <<"a", ".txt">>, <<"a">>, <<".zip">>}
EntryNames == {<<"a", ".jpg">>, <<"B", ".jpg">>, <<"a", "10", ".jpg">>,
               <<"a", "2", ".png">>, <<"a", ".txt">>, <<"a", ".jpg", "/">>,
               <<"a", "/", "b", ".JPG">>, <<".jpg">>}
NoArchive == [exists |-> FALSE, name |-> <<"a", ".zip">>, malformed |-> FALSE, entries |-> <<>>]
ArchiveFiles ==
    {[exists |-> FALSE, name |-> n, malformed |-> FALSE, entries |-> <<>>] : n \in ArchiveNames}
    \cup {[exists |-> TRUE, name |-> n, malformed |-> TRUE, entries |-> <<>>] : n \in ArchiveNames}
    \cup {[exists |-> TRUE, name |-> x[1], malformed |-> FALSE, entries |-> x[2]] :
             x \in ArchiveNames \X BoundedSeq(EntryNames, MaxEntries)}

\* containers for extraction: names one of which ends with another, a
\* directory entry and a non-image file, in every order
ContainerNames == {<<"a", ".zip">>, <<"a", ".rar">>, <<"a", ".txt">>}
StoredNames == {<<"a", ".jpg">>, <<"a", "a", ".jpg">>, <<"B", ".jpg">>,
                <<"a", ".txt">>, <<"a", ".jpg", "/">>}
Containers ==
    {[exists |-> FALSE, name |-> n, malformed |-> FALSE, entries |-> <<>>] : n \in ContainerNames}
    \cup {[exists |-> TRUE, name |-> n, malformed |-> TRUE, entries |-> <<>>] : n \in ContainerNames}
    \cup {[exists |-> TRUE, name |-> x[1], malformed |-> FALSE, entries |-> x[2]] :
             x \in ContainerNames \X BoundedSeq(StoredNames, MaxEntries)}

\* directories: what os.listdir yields, names distinct, each entry a
\* directory, a regular file or something else (broken link, device)
MaxDirEntries == 3
DirNames == {<<"A">>, <<"a", ".zip">>, <<"b", ".jpg">>, <<".DS_Store">>,
             <<"a", ".txt">>, <<"b", "__MACOSX">>, <<"B", ".JPG">>}
DirEntries == [name : DirNames, kind : {"dir", "file", "other"}]
NoDirectory == [kind |-> "missing", entries |-> <<>>]
Directories ==
    {[kind |-> k, entries |-> <<>>] : k \in {"missing", "file"}}
    \cup {[kind |-> k, entries |-> e] :
             k \in {"dir", "unreadable"},
             e \in {l \in BoundedSeq(DirEntries, MaxDirEntries) :
                       \A i, j \in 1..Len(l) : l[i].name = l[j].name => i = j}}
DirRequests == {<<>>, <<"a">>, <<"..">>, <<"/", "a">>}

\* requests: plain names, archive and image names, parent steps and a
\* doubly quoted separator; the node and the archive the request meets
MaxRequestLen == 5
RequestPieces == {"/", "a", ".zip", ".jpg", "..", "a%252Fa"}
RequestNodes == {[kind |-> k, entries |-> <<>>] : k \in {"missing", "file", "dir"}}
RequestArchives ==
    {NoArchive, [NoArchive EXCEPT !.exists = TRUE, !.malformed = TRUE]}
    \cup {[NoArchive EXCEPT !.exists = TRUE, !.entries = e] : e \in {<<>>, <<<<"a", ".jpg">>>>, <<<<"a", ".txt">>>>, <<<<"a", ".txt">>, <<"a", ".jpg">>>>}}

\* the library and the clock of the cache model
MaxClock == 1
MaxVer == 2
MaxSweeps == 1
\* last: the call that completed last, what it found cached, what it returned
NoCall == [op |-> "none", target |-> "", found |-> "", ret |-> None, count |-> 0, ran |-> FALSE]

\* texts: ASCII, KS X 1001 lead/trail bytes and a byte no codec but latin1
\* takes; str values with a Hangul syllable and a lone surrogate
MaxBytes == 3
MaxChars == 2
MaxFallback == 2
ByteValues == {97, 161, 176, 255}
CharValues == {97, 44032, 56448}
Codecs == {"UTF-8", "EUC-KR", "CP949", "latin1", "nope", "undefined"}
Texts ==
    {[kind |-> "bytes", body |-> b] : b \in BoundedSeq(ByteValues, MaxBytes)}
    \cup {[kind |-> "str", body |-> c] : c \in BoundedSeq(CharValues, MaxChars)}
Verdicts == [encoding : Codecs \cup {"None"}, confident : BOOLEAN]
NoDecoding ==
    [text |-> [kind |-> "str", body |-> <<>>],
     detected |-> [encoding |-> "None", confident |-> FALSE],
     source_encoding |-> "EUC-KR",
     fallback_encodings |-> <<"CP949", "EUC-KR", "UTF-8", "latin1">>]

DecodeIdle == decoding = NoDecoding

\* the watcher: observers created, events delivered, names the events carry
MaxObservers == 2
MaxEvents == 2
WatchNames == {<<"a", ".zip">>, <<"a", ".txt">>}
WatchEvents ==
    {[kind |-> k, src_path |-> n, dest_path |-> <<>>, is_directory |-> d] :
        k \in {"created", "deleted", "modified"}, n \in WatchNames, d \in BOOLEAN}
    \cup {[kind |-> "moved", src_path |-> x[1], dest_path |-> x[2], is_directory |-> d] :
              x \in {y \in WatchNames \X WatchNames : y[1] # y[2]}, d \in BOOLEAN}
\* the names the event filter is asked about
MaxNameLen == 3
NamePieces == {"a", ".zip", ".jpg", ".txt", "__MACOSX", ".DS_Store", "@eaDir", ".thumbnails"}
\* the files ThumbnailService writes and unlinks: <root>/.thumbnails/<key>.jpg
\* and <root>/.thumbnails/mapping.json, and the cache directory itself
thumbnail_cache_dir == <<".thumbnails">>
mapping_file == thumbnail_cache_dir \o <<"/", "mapping", ".json">>
CacheFile(k) == thumbnail_cache_dir \o <<"/", k, ".jpg">>
CacheEvents ==
    {[kind |-> "created", src_path |-> n, dest_path |-> <<>>, is_directory |-> FALSE] :
        n \in {CacheFile(k) : k \in Keys} \cup {mapping_file}}
    \cup {[kind |-> "created", src_path |-> thumbnail_cache_dir, dest_path |-> <<>>,
           is_directory |-> TRUE]}
FilterEvents ==
    {[kind |-> "created", src_path |-> n, dest_path |-> <<>>, is_directory |-> d] :
        n \in BoundedSeq(NamePieces, MaxNameLen) \ {<<>>}, d \in BOOLEAN}
    \cup CacheEvents
NoEvent == [kind |-> "none", src_path |-> <<>>, dest_path |-> <<>>, is_directory |-> FALSE]
\* FileWatcherService.__init__
NoWatcher == [is_running |-> FALSE, observer |-> 0, event_handler |-> FALSE,
              loop |-> FALSE, thumbnail_service |-> FALSE]
WatcherIdle ==
    /\ watcher = NoWatcher
    /\ observers = <<>>
    /\ manga_root_exists = TRUE
    /\ tasks = <<>>
    /\ timers = <<>>
    /\ dispatched = [total |-> 0, deleted |-> 0]
    /\ swept = 0
    /\ event = NoEvent

ArchiveIdle == archive = NoArchive /\ rar_available = TRUE

DirectoryIdle == directory = NoDirectory

\* the callers of get_or_create_thumbnail that may be in flight together
Callers == {1, 2}
NoCoroutine == [pc |-> "idle", target |-> "", archive |-> "", data |-> None,
                ret |-> None, at |-> 0, order |-> 0]

CacheIdle ==
    /\ coros = [p \in Callers |-> NoCoroutine]
    /\ fs = [t \in Nodes |-> NoFile]
    /\ thumbs = [k \in Keys |-> NoThumbnail]
    /\ mapping = NoMapping
    /\ asset_present = TRUE
    /\ clock = 0
    /\ events = {}
    /\ sweeps = 0
    /\ last = NoCall
    /\ coros = [p \in Callers |-> NoCoroutine]

PathIdle == requested_path = <<>> /\ symlinked = FALSE

-----------------------------------------------------------------------------
(* Specification of the path checks: one request path, one call *)

InitPath ==
    /\ requested_path \in BoundedSeq(PathPieces, MaxPathLen)
    /\ symlinked \in BOOLEAN
    /\ ArchiveIdle /\ DirectoryIdle /\ CacheIdle /\ DecodeIdle /\ WatcherIdle
    /\ call = "none"
    /\ result = [raised |-> "none", path |-> <<>>]

CallIsSafePath ==
    /\ call = "none"
    /\ call' = "is_safe_path"
    /\ result' = [raised |-> IF is_safe_path(manga_root, requested_path)
                             THEN "none" ELSE "unsafe",
                  path |-> <<>>]
    /\ UNCHANGED <<inputs, cache_vars>>

CallValidate ==
    /\ call = "none"
    /\ call' = "_validate_and_normalize_path"
    /\ result' = _validate_and_normalize_path(requested_path)
    /\ UNCHANGED <<inputs, cache_vars>>

CallNormalize ==
    /\ call = "none"
    /\ call' = "normalize_path"
    /\ result' = [raised |-> "none", path |-> normalize_path(requested_path)]
    /\ UNCHANGED <<inputs, cache_vars>>

NextPath == CallIsSafePath \/ CallValidate \/ CallNormalize

SpecPath == InitPath /\ [][NextPath]_vars

(* Specification of the archive-boundary split *)

InitSplit ==
    /\ requested_path \in BoundedSeq(SplitPieces, MaxSplitLen)
    /\ symlinked = FALSE
    /\ ArchiveIdle /\ DirectoryIdle /\ CacheIdle /\ DecodeIdle /\ WatcherIdle
    /\ call = "none"
    /\ result = <<<<>>, <<>>>>

CallExtract ==
    /\ call = "none"
    /\ call' = "extract_archive_and_image_paths"
    /\ result' = extract_archive_and_image_paths(requested_path)
    /\ UNCHANGED <<inputs, cache_vars>>

NextSplit == CallExtract

SpecSplit == InitSplit /\ [][NextSplit]_vars

(* Specification of the archive listing: one archive file, one call *)

InitArchive ==
    /\ archive \in ArchiveFiles
    /\ rar_available \in BOOLEAN
    /\ PathIdle /\ DirectoryIdle /\ CacheIdle /\ DecodeIdle /\ WatcherIdle
    /\ call = "none"
    /\ result = Listing(<<>>)

CallListArchive ==
    /\ call = "none"
    /\ call' = "list_archive_contents"
    /\ result' = list_archive_contents(archive)
    /\ UNCHANGED <<inputs, cache_vars>>

NextArchive == CallListArchive

SpecArchive == InitArchive /\ [][NextArchive]_vars

(* Specification of extraction: one container, one extraction or one       *)
(* thumbnail made of it                                                     *)

InitExtract ==
    /\ archive \in Containers
    /\ rar_available \in BOOLEAN
    /\ PathIdle /\ DirectoryIdle /\ CacheIdle /\ DecodeIdle /\ WatcherIdle
    /\ call = "none"
    /\ result = [file_path |-> None, data |-> None]

\* extraction under a name the listing returned, or under a name it did not
CallExtractFile ==
    /\ call = "none"
    /\ \E n \in StoredNames :
          /\ call' = "extract_file_from_archive"
          /\ result' = [file_path |-> n, data |-> extract_file_from_archive(archive, n)]
    /\ UNCHANGED <<inputs, cache_vars>>

CallCreateThumbnail ==
    /\ call = "none"
    /\ call' = "_create_thumbnail_from_archive"
    /\ result' = [file_path |-> FirstImage(archive), data |-> ThumbnailData(archive)]
    /\ UNCHANGED <<inputs, cache_vars>>

NextExtract == CallExtractFile \/ CallCreateThumbnail

SpecExtract == InitExtract /\ [][NextExtract]_vars

(* Specification of the request dispatcher: one request, the node at its   *)
(* full path and the archive file at its archive part, one call.  The root  *)
(* and what lies above it are directories; nothing lies below a regular     *)
(* file; without an inner part the archive is the node itself.              *)

Above(normalized_path) ==
    \A c \in Elements(Split(normalized_path)) : Text(c) \in {"", ".."}

InitRequest ==
    /\ requested_path \in BoundedSeq(RequestPieces, MaxRequestLen)
    /\ symlinked = FALSE
    /\ rar_available = TRUE
    /\ directory \in RequestNodes
    /\ archive \in RequestArchives
    /\ LET decoded_path == unquote(requested_path)
           normalized_path == normalize_path(decoded_path)
       IN  /\ Above(normalized_path) => directory.kind = "dir"
           /\ IF _is_archive_image_request(decoded_path)
              THEN archive.exists => directory.kind = "missing"
              ELSE archive.exists <=> directory.kind = "file"
    /\ CacheIdle /\ DecodeIdle /\ WatcherIdle
    /\ call = "none"
    /\ result = Success

CallHandleRequest ==
    /\ call = "none"
    /\ call' = "handle_request"
    /\ result' = handle_request(requested_path)
    /\ UNCHANGED <<inputs, cache_vars>>

NextRequest == CallHandleRequest

SpecRequest == InitRequest /\ [][NextRequest]_vars

(* Specification of the name decoding: one text, one configuration, one call *)

InitDecode ==
    /\ decoding \in [text : Texts,
                     detected : Verdicts,
                     source_encoding : Codecs,
                     fallback_encodings :
                         {f \in BoundedSeq(Codecs, MaxFallback) : f # <<>>}]
    /\ PathIdle /\ ArchiveIdle /\ DirectoryIdle /\ CacheIdle /\ WatcherIdle
    /\ call = "none"
    /\ result = Decoded(<<>>)

Called(function, outcome) ==
    /\ call = "none"
    /\ call' = function
    /\ result' = outcome
    /\ UNCHANGED <<inputs, cache_vars>>

CallConvertFilename ==
    Called("convert_filename_encoding", ConvertFilenameEncoding(decoding.text))

CallDetectAndConvert ==
    Called("detect_and_convert_encoding", detect_and_convert_encoding(decoding.text))

CallSafeDecode ==
    Called("safe_decode", safe_decode(decoding.text, decoding.fallback_encodings))

NextDecode == CallConvertFilename \/ CallDetectAndConvert \/ CallSafeDecode

SpecDecode == InitDecode /\ [][NextDecode]_vars

(* Specification of the directory listing: one directory, one call *)

InitDirectory ==
    /\ requested_path \in DirRequests
    /\ symlinked = FALSE
    /\ directory \in Directories
    /\ ArchiveIdle /\ CacheIdle /\ DecodeIdle /\ WatcherIdle
    /\ call = "none"
    /\ result = <<>>

CallListDirectory ==
    /\ call = "none"
    /\ call' = "list_directory"
    /\ result' = list_directory(requested_path)
    /\ UNCHANGED <<inputs, cache_vars>>

NextDirectory == CallListDirectory

SpecDirectory == InitDirectory /\ [][NextDirectory]_vars

-----------------------------------------------------------------------------
(* file_watcher.py: the handlers the event loop runs for queued events.     *)
(* events holds the qualifying events not handled yet, as <<kind, path>>.   *)

Cache == [thumbs |-> thumbs, mapping |-> mapping]

Untouched(S) == [thumbs |-> S.thumbs, mapping |-> S.mapping, ret |-> None, ran |-> FALSE]

_handle_file_created(S, file_path) ==
    IF is_file(file_path) /\ is_archive_file(VolumeName(file_path))
    THEN get_or_create_thumbnail(S, file_path)
    ELSE Untouched(S)

\* the change handler without thumbnail_path.unlink()
_handle_file_modified_kept(S, file_path) ==
    IF is_file(file_path) /\ is_archive_file(VolumeName(file_path))
    THEN LET thumbnail_path == _get_thumbnail_path(file_path)
         IN  IF S.thumbs[thumbnail_path].exists
             THEN get_or_create_thumbnail(S, file_path)
             ELSE Untouched(S)
    ELSE Untouched(S)

_handle_file_modified(S, file_path) ==
    IF is_file(file_path) /\ is_archive_file(VolumeName(file_path))
    THEN LET thumbnail_path == _get_thumbnail_path(file_path)
         IN  IF S.thumbs[thumbnail_path].exists
             THEN get_or_create_thumbnail(
                      [thumbs |-> [S.thumbs EXCEPT ![thumbnail_path] = NoThumbnail],
                       mapping |-> S.mapping], file_path)
             ELSE Untouched(S)
    ELSE Untouched(S)

-----------------------------------------------------------------------------
(* Specification of the thumbnail cache: the service after construction,    *)
(* the library changing underneath it, and the watcher's handlers.          *)

Libraries ==
    {f \in [Nodes -> [exists : BOOLEAN, mtime : {0}, ver : 0..MaxVer]] :
        /\ f[LibraryRoot] = [exists |-> TRUE, mtime |-> 0, ver |-> 0]
        /\ f[Series].ver = 0
        /\ \A t \in Nodes : ~f[t].exists => f[t] = NoFile
        /\ \A t \in Volumes : f[t].exists => f[Series].exists}

InitCache ==
    /\ PathIdle /\ ArchiveIdle /\ DirectoryIdle /\ DecodeIdle /\ WatcherIdle
    /\ call = "none"
    /\ result = <<>>
    /\ fs \in Libraries
    /\ asset_present \in BOOLEAN
    /\ clock = 0
    /\ thumbs = [k \in Keys |-> IF k = md5(LibraryRoot)
                                THEN [exists |-> TRUE, mtime |-> 0, data |-> InitialRootThumbnail]
                                ELSE NoThumbnail]
    /\ mapping = NoMapping
    /\ events = {}
    /\ sweeps = 0
    /\ last = NoCall
    /\ coros = [p \in Callers |-> NoCoroutine]

Found(t) ==
    IF ~thumbs[md5(t)].exists THEN "absent"
    ELSE IF _is_thumbnail_valid(thumbs, md5(t), t) THEN "valid"
    ELSE "stale"

Returned(op, t, r) ==
    /\ thumbs' = r.thumbs
    /\ mapping' = r.mapping
    /\ last' = [op |-> op, target |-> t, found |-> Found(t), ret |-> r.ret, count |-> 0,
                ran |-> r.ran]

GetOrCreate ==
    \E t \in Nodes :
        /\ Returned("get_or_create_thumbnail", t, get_or_create_thumbnail(Cache, t))
        /\ UNCHANGED <<inputs, calls, fs, asset_present, clock, events, sweeps>>

Swept(op, r) ==
    /\ thumbs' = r.thumbs
    /\ mapping' = r.mapping
    /\ last' = [NoCall EXCEPT !.op = op, !.count = r.deleted_count]

CleanupOrphans ==
    /\ Swept("cleanup_orphaned_thumbnails", cleanup_orphaned_thumbnails(Cache))
    /\ UNCHANGED <<inputs, calls, fs, asset_present, clock, events, sweeps>>

ClearCache ==
    /\ thumbs' = clear_cache(Cache).thumbs
    /\ mapping' = clear_cache(Cache).mapping
    /\ last' = [NoCall EXCEPT !.op = "clear_cache"]
    /\ UNCHANGED <<inputs, calls, fs, asset_present, clock, events, sweeps>>

HandleCreated ==
    \E e \in events :
        /\ e[1] = "created"
        /\ events' = events \ {e}
        /\ Returned("_handle_file_created", e[2], _handle_file_created(Cache, e[2]))
        /\ UNCHANGED <<inputs, calls, fs, asset_present, clock, sweeps>>

HandleModified ==
    \E e \in events :
        /\ e[1] = "modified"
        /\ events' = events \ {e}
        /\ Returned("_handle_file_modified", e[2], _handle_file_modified(Cache, e[2]))
        /\ UNCHANGED <<inputs, calls, fs, asset_present, clock, sweeps>>

\* _handle_file_deleted: asyncio.create_task(_cleanup_thumbnails_delayed())
HandleDeleted ==
    \E e \in events :
        /\ e[1] = "deleted"
        /\ sweeps < MaxSweeps
        /\ events' = events \ {e}
        /\ sweeps' = sweeps + 1
        /\ last' = [NoCall EXCEPT !.op = "_handle_file_deleted", !.target = e[2]]
        /\ UNCHANGED <<inputs, calls, fs, thumbs, mapping, asset_present, clock>>

\* _cleanup_thumbnails_delayed, once its sleep is over
DelayedCleanup ==
    /\ sweeps > 0
    /\ sweeps' = sweeps - 1
    /\ Swept("_cleanup_thumbnails_delayed", cleanup_orphaned_thumbnails(Cache))
    /\ UNCHANGED <<inputs, calls, fs, asset_present, clock, events>>

(* the library changing: time passes, folders and volumes come and go;      *)
(* a change of a folder's entries stamps the folder                         *)

Changed(f, ev) ==
    /\ fs' = f
    /\ events' = events \cup ev
    /\ last' = NoCall
    /\ UNCHANGED <<inputs, calls, thumbs, mapping, asset_present, clock, sweeps>>

Tick ==
    /\ clock < MaxClock
    /\ clock' = clock + 1
    /\ last' = NoCall
    /\ UNCHANGED <<inputs, calls, fs, thumbs, mapping, asset_present, events, sweeps>>

MakeSeries ==
    /\ ~fs[Series].exists
    /\ Changed([fs EXCEPT ![Series] = [exists |-> TRUE, mtime |-> clock, ver |-> 0],
                          ![LibraryRoot].mtime = clock], {})

AddVolume ==
    \E t \in Volumes, v \in 0..MaxVer :
        /\ fs[Series].exists /\ ~fs[t].exists
        /\ Changed([fs EXCEPT ![t] = [exists |-> TRUE, mtime |-> clock, ver |-> v],
                              ![Series].mtime = clock], {<<"created", t>>})

ModifyVolume ==
    \E t \in Volumes, v \in 0..MaxVer :
        /\ fs[t].exists
        /\ Changed([fs EXCEPT ![t] = [exists |-> TRUE, mtime |-> clock, ver |-> v]],
                   {<<"modified", t>>})

RemoveVolume ==
    \E t \in Volumes :
        /\ fs[t].exists
        /\ Changed([fs EXCEPT ![t] = NoFile, ![Series].mtime = clock], {<<"deleted", t>>})

RemoveSeries ==
    /\ fs[Series].exists
    /\ Changed([t \in Nodes |-> IF t = LibraryRoot THEN [fs[t] EXCEPT !.mtime = clock]
                                ELSE NoFile],
               {<<"deleted", t>> : t \in {x \in Nodes : x # LibraryRoot /\ fs[x].exists}})

NextCache ==
    \/ GetOrCreate \/ CleanupOrphans \/ ClearCache
    \/ HandleCreated \/ HandleModified \/ HandleDeleted \/ DelayedCleanup
    \/ Tick \/ MakeSeries \/ AddVolume \/ ModifyVolume \/ RemoveVolume \/ RemoveSeries

SpecCache == InitCache /\ [][NextCache]_vars

(* Specification of concurrent requests: get_or_create_thumbnail runs as a  *)
(* coroutine on one loop and yields it where it awaits the executor: for    *)
(* the listing, the extraction and the resize.  Between two such points a   *)
(* coroutine runs alone.  A coroutine is [pc, target, archive, data, ret]   *)
(* and, for the record, when it wrote and as which writer in order.         *)

InitRace ==
    /\ PathIdle /\ ArchiveIdle /\ DirectoryIdle /\ DecodeIdle /\ WatcherIdle
    /\ call = "none"
    /\ result = <<>>
    /\ fs \in {f \in Libraries : f[Series].exists}
    /\ asset_present = TRUE
    /\ clock = 0
    /\ thumbs = [k \in Keys |-> IF k = md5(LibraryRoot)
                                THEN [exists |-> TRUE, mtime |-> 0, data |-> InitialRootThumbnail]
                                ELSE NoThumbnail]
    /\ mapping = NoMapping
    /\ events = {}
    /\ sweeps = 0
    /\ last = NoCall
    /\ coros = [p \in Callers |-> NoCoroutine]

Finished(p, value) ==
    coros' = [coros EXCEPT ![p].pc = "done", ![p].ret = value]

\* up to the first await of the executor
Begin ==
    \E p \in Callers, t \in {Series} \cup Volumes :
        /\ coros[p].pc = "idle"
        /\ IF _is_thumbnail_valid(thumbs, _get_thumbnail_path(t), t)
           THEN coros' = [coros EXCEPT ![p].pc = "done", ![p].target = t,
                                       ![p].ret = _read_thumbnail(thumbs, _get_thumbnail_path(t))]
           ELSE IF is_file(t)
           THEN coros' = [coros EXCEPT ![p].pc = "listing", ![p].target = t, ![p].archive = t]
           ELSE IF is_dir(t) /\ ArchiveFilesIn(t) # <<>>
           THEN coros' = [coros EXCEPT ![p].pc = "listing", ![p].target = t,
                                       ![p].archive = ArchiveFilesIn(t)[1]]
           ELSE coros' = [coros EXCEPT ![p].pc = "done", ![p].target = t, ![p].ret = None]
        /\ UNCHANGED <<requested_path, symlinked, archive, rar_available, directory, decoding,
                       watcher_vars, calls, cache_vars>>

\* list_archive_contents has returned
Listed ==
    \E p \in Callers :
        /\ coros[p].pc = "listing"
        /\ IF fs[coros[p].archive].ver = 0 THEN Finished(p, None)
           ELSE coros' = [coros EXCEPT ![p].pc = "extracting"]
        /\ UNCHANGED <<requested_path, symlinked, archive, rar_available, directory, decoding,
                       watcher_vars, calls, cache_vars>>

\* extract_file_from_archive has returned
Extracted ==
    \E p \in Callers :
        /\ coros[p].pc = "extracting"
        /\ IF fs[coros[p].archive].ver = 0 THEN Finished(p, None)
           ELSE coros' = [coros EXCEPT ![p].pc = "resizing",
                                       ![p].data = <<coros[p].archive, fs[coros[p].archive].ver>>]
        /\ UNCHANGED <<requested_path, symlinked, archive, rar_available, directory, decoding,
                       watcher_vars, calls, cache_vars>>

\* _resize_image has returned: save the thumbnail, update the mapping, return
Resized ==
    \E p \in Callers :
        /\ coros[p].pc = "resizing"
        /\ LET thumbnail_data == _resize_image(coros[p].data)
               k == _get_thumbnail_path(coros[p].target)
           IN  /\ thumbs' = _save_thumbnail(thumbs, k, thumbnail_data)
               /\ mapping' = _update_mapping(mapping, k, coros[p].target)
               /\ coros' = [coros EXCEPT
                      ![p].pc = "done", ![p].ret = thumbnail_data,
                      ![p].at = clock,
                      ![p].order = 1 + Cardinality({q \in Callers : coros[q].order > 0})]
        /\ UNCHANGED <<requested_path, symlinked, archive, rar_available, directory, decoding,
                       watcher_vars, calls, fs, asset_present, clock, events, sweeps, last>>

NextRace == Begin \/ Listed \/ Extracted \/ Resized \/ Tick

SpecRace == InitRace /\ [][NextRace]_vars

(* Specification of requests and sweeps together: the coroutines of         *)
(* get_or_create_thumbnail for the folder and the volume, the removal of    *)
(* the volume, the deletion handler with its delayed sweep, and sweeps      *)
(* asked for directly.  The loop runs every coroutine it holds, so the      *)
(* steps of a started coroutine and of a scheduled handler are fair.        *)

InitSweep == InitRace

NextSweep ==
    \/ Begin \/ Listed \/ Extracted \/ Resized
    \/ RemoveVolume \/ HandleDeleted \/ DelayedCleanup \/ CleanupOrphans \/ Tick

SpecSweep == InitSweep /\ [][NextSweep]_vars

SpecSweepLive ==
    /\ SpecSweep
    /\ WF_vars(Listed) /\ WF_vars(Extracted) /\ WF_vars(Resized)
    /\ WF_vars(HandleDeleted) /\ WF_vars(DelayedCleanup)

(* Specification of an arrival: a series folder without volumes and an      *)
(* empty cache; volumes appear and are written to, the watcher handles the  *)
(* events, and no client asks for anything.                                 *)

InitArrival ==
    /\ PathIdle /\ ArchiveIdle /\ DirectoryIdle /\ DecodeIdle /\ WatcherIdle
    /\ call = "none"
    /\ result = <<>>
    /\ fs = [t \in Nodes |-> IF t \in {LibraryRoot, Series}
                              THEN [exists |-> TRUE, mtime |-> 0, ver |-> 0]
                              ELSE NoFile]
    /\ asset_present \in BOOLEAN
    /\ clock = 0
    /\ thumbs = [k \in Keys |-> IF k = md5(LibraryRoot)
                                THEN [exists |-> TRUE, mtime |-> 0, data |-> InitialRootThumbnail]
                                ELSE NoThumbnail]
    /\ mapping = NoMapping
    /\ events = {}
    /\ sweeps = 0
    /\ last = NoCall
    /\ coros = [p \in Callers |-> NoCoroutine]

NextArrival == AddVolume \/ ModifyVolume \/ HandleCreated \/ HandleModified \/ Tick

SpecArrival == InitArrival /\ [][NextArrival]_vars

(* Specification of sweeps under I/O errors: thumbnails are requested, a    *)
(* volume is removed, and sweeps run whose read or write of mapping.json    *)
(* may fail; both helpers catch the exception and log it.                   *)

InitFaults ==
    /\ PathIdle /\ ArchiveIdle /\ DirectoryIdle /\ DecodeIdle /\ WatcherIdle
    /\ call = "none"
    /\ result = <<>>
    /\ fs \in {f \in Libraries : f[Series].exists}
    /\ asset_present = TRUE
    /\ clock = 0
    /\ thumbs = [k \in Keys |-> IF k = md5(LibraryRoot)
                                THEN [exists |-> TRUE, mtime |-> 0, data |-> InitialRootThumbnail]
                                ELSE NoThumbnail]
    /\ mapping = NoMapping
    /\ events = {}
    /\ sweeps = 0
    /\ last = NoCall
    /\ coros = [p \in Callers |-> NoCoroutine]

CleanupOrphansIO ==
    \E load_fails \in BOOLEAN, save \in SaveOutcomes :
        /\ Swept("cleanup_orphaned_thumbnails",
                 cleanup_orphaned_thumbnails_io(Cache, load_fails, save))
        /\ call' = "cleanup_orphaned_thumbnails"
        /\ result' = [load_fails |-> load_fails, save |-> save]
        /\ UNCHANGED <<inputs, fs, asset_present, clock, events, sweeps>>

NextFaults == GetOrCreate \/ RemoveVolume \/ CleanupOrphansIO

SpecFaults == InitFaults /\ [][NextFaults]_vars

-----------------------------------------------------------------------------
(* app/services/file_watcher.py: the service, its observer and the event    *)
(* handler the observer thread calls.  An event is [kind, src_path,         *)
(* dest_path, is_directory]; a coroutine handed to the loop is [handler,    *)
(* path, kind, elapsed] with the kind of the event behind it and the        *)
(* seconds gone since that event.                                           *)

watched_extensions == archive_extension_names \cup image_extensions
ignored_names == hidden_files \cup {".thumbnails"}
ignored_patterns == hidden_patterns

\* await asyncio.sleep(5)
Delay == 5

_should_process_event(ev) ==
    \E name \in {PathName(ev.src_path)} :
        IF ev.is_directory
        THEN IF Text(name) \in ignored_names THEN FALSE
             ELSE IF \E i \in 1..Len(name) : name[i] \in ignored_patterns THEN FALSE
             ELSE TRUE
        ELSE IF HasExtensionIn(name, watched_extensions)
        THEN IF Text(name) \in ignored_names THEN FALSE ELSE TRUE
        ELSE FALSE

Coroutine(handler, path, ev) ==
    [handler |-> handler, path |-> path, kind |-> ev.kind, elapsed |-> 0]

_schedule_async_task(w, queue, coro) ==
    IF w.loop THEN Append(queue, coro) ELSE queue

on_created(w, queue, ev) ==
    IF _should_process_event(ev)
    THEN _schedule_async_task(w, queue, Coroutine("_handle_file_created", ev.src_path, ev))
    ELSE queue

on_deleted(w, queue, ev) ==
    IF _should_process_event(ev)
    THEN _schedule_async_task(w, queue, Coroutine("_handle_file_deleted", ev.src_path, ev))
    ELSE queue

on_moved(w, queue, ev) ==
    IF _should_process_event(ev)
    THEN _schedule_async_task(w,
             _schedule_async_task(w, queue,
                 Coroutine("_handle_file_deleted", ev.src_path, ev)),
             Coroutine("_handle_file_created", ev.dest_path, ev))
    ELSE queue

on_modified(w, queue, ev) ==
    IF ~ev.is_directory /\ _should_process_event(ev)
    THEN _schedule_async_task(w, queue, Coroutine("_handle_file_modified", ev.src_path, ev))
    ELSE queue

\* start_watching without the check of is_running
start_watching_again(w, obs, exists, fails) ==
    IF ~exists THEN [watcher |-> w, observers |-> obs]
    ELSE LET created == Append(obs, "created")
             prepared == [w EXCEPT !.loop = TRUE, !.event_handler = TRUE,
                                   !.observer = Len(created)]
         IN  IF fails
             THEN [watcher |-> [prepared EXCEPT !.is_running = FALSE], observers |-> created]
             ELSE [watcher |-> [prepared EXCEPT !.is_running = TRUE],
                   observers |-> [created EXCEPT ![Len(created)] = "started"]]

\* fails: observer.schedule or observer.start raises
start_watching(w, obs, exists, fails) ==
    IF w.is_running THEN [watcher |-> w, observers |-> obs]
    ELSE IF ~exists THEN [watcher |-> w, observers |-> obs]
    ELSE LET created == Append(obs, "created")
             prepared == [w EXCEPT !.loop = TRUE, !.event_handler = TRUE,
                                   !.observer = Len(created)]
         IN  IF fails
             THEN [watcher |-> [prepared EXCEPT !.is_running = FALSE], observers |-> created]
             ELSE [watcher |-> [prepared EXCEPT !.is_running = TRUE],
                   observers |-> [created EXCEPT ![Len(created)] = "started"]]

stop_watching(w, obs) ==
    IF ~w.is_running \/ w.observer = 0 THEN [watcher |-> w, observers |-> obs]
    ELSE [watcher |-> [w EXCEPT !.observer = 0, !.event_handler = FALSE,
                                !.loop = FALSE, !.is_running = FALSE],
          observers |-> [obs EXCEPT ![w.observer] = "stopped"]]

\* a deletion handler that starts no second sleeper while one is pending
_handle_file_deleted_merged(w, pending, coro) ==
    IF w.thumbnail_service /\ pending = <<>>
    THEN Append(pending, [kind |-> coro.kind, elapsed |-> coro.elapsed, remaining |-> Delay])
    ELSE pending

\* asyncio.create_task(self._cleanup_thumbnails_delayed())
_handle_file_deleted(w, pending, coro) ==
    IF w.thumbnail_service
    THEN Append(pending, [kind |-> coro.kind, elapsed |-> coro.elapsed, remaining |-> Delay])
    ELSE pending

(* Specification of the watcher: the service is started and stopped, the    *)
(* watched directory comes and goes, a started observer delivers events,    *)
(* the loop runs the coroutines in the order they were handed over, time    *)
(* passes and sleepers wake.  The paths of the events name no file of the   *)
(* library, so the handlers of creations and changes generate nothing.      *)

Active == {i \in 1..Len(observers) : observers[i] = "started"}

InitWatcher ==
    /\ PathIdle /\ ArchiveIdle /\ DirectoryIdle /\ DecodeIdle /\ CacheIdle
    /\ call = "none"
    /\ result = <<>>
    /\ watcher \in {[NoWatcher EXCEPT !.thumbnail_service = t] : t \in BOOLEAN}
    /\ observers = <<>>
    /\ manga_root_exists \in BOOLEAN
    /\ tasks = <<>>
    /\ timers = <<>>
    /\ dispatched = [total |-> 0, deleted |-> 0]
    /\ swept = 0
    /\ event = NoEvent

StartWatching ==
    \E fails \in BOOLEAN :
        LET started == start_watching(watcher, observers, manga_root_exists, fails)
        IN  /\ Len(started.observers) <= MaxObservers
            /\ watcher' = started.watcher
            /\ observers' = started.observers
            /\ call' = "start_watching"
            /\ result' = [failed |-> fails]
            /\ UNCHANGED <<requests, cache_vars, manga_root_exists, tasks, timers,
                           dispatched, swept, event>>

StopWatching ==
    /\ watcher' = stop_watching(watcher, observers).watcher
    /\ observers' = stop_watching(watcher, observers).observers
    /\ call' = "stop_watching"
    /\ result' = <<>>
    /\ UNCHANGED <<requests, cache_vars, manga_root_exists, tasks, timers, dispatched, swept, event>>

RemoveRoot ==
    /\ manga_root_exists
    /\ manga_root_exists' = FALSE
    /\ call' = "none"
    /\ result' = <<>>
    /\ UNCHANGED <<requests, cache_vars, watcher, observers, tasks, timers, dispatched, swept, event>>

MakeRoot ==
    /\ ~manga_root_exists
    /\ manga_root_exists' = TRUE
    /\ call' = "none"
    /\ result' = <<>>
    /\ UNCHANGED <<requests, cache_vars, watcher, observers, tasks, timers, dispatched, swept, event>>

\* the observer thread calls the event handler
Dispatch(method, e, queue) ==
    /\ Active # {}
    /\ dispatched.total < MaxEvents
    /\ tasks' = queue
    /\ dispatched' =
           [total |-> dispatched.total + 1,
            deleted |-> IF e.kind = "deleted" /\ Len(queue) > Len(tasks)
                        THEN dispatched.deleted + 1 ELSE dispatched.deleted]
    /\ call' = method
    /\ result' = e
    /\ UNCHANGED <<requests, cache_vars, watcher, observers, manga_root_exists, timers, swept,
                   event>>

OnCreated ==
    \E e \in WatchEvents :
        e.kind = "created" /\ Dispatch("on_created", e, on_created(watcher, tasks, e))

OnDeleted ==
    \E e \in WatchEvents :
        e.kind = "deleted" /\ Dispatch("on_deleted", e, on_deleted(watcher, tasks, e))

OnMoved ==
    \E e \in WatchEvents :
        e.kind = "moved" /\ Dispatch("on_moved", e, on_moved(watcher, tasks, e))

OnModified ==
    \E e \in WatchEvents :
        e.kind = "modified" /\ Dispatch("on_modified", e, on_modified(watcher, tasks, e))

\* the loop starts the coroutine that was handed over first
Run(handler, pending) ==
    /\ tasks # <<>>
    /\ Head(tasks).handler = handler
    /\ tasks' = Tail(tasks)
    /\ timers' = pending
    /\ call' = handler
    /\ result' = Head(tasks)
    /\ UNCHANGED <<requests, cache_vars, watcher, observers, manga_root_exists,
                   dispatched, swept, event>>

RunCreated == Run("_handle_file_created", timers)

RunModified == Run("_handle_file_modified", timers)

RunDeleted ==
    /\ tasks # <<>>
    /\ Run("_handle_file_deleted", _handle_file_deleted(watcher, timers, Head(tasks)))

\* _cleanup_thumbnails_delayed, its sleep over
WakeCleanup ==
    \E i \in 1..Len(timers) :
        /\ timers[i].remaining = 0
        /\ timers' = SubSeq(timers, 1, i - 1) \o SubSeq(timers, i + 1, Len(timers))
        /\ swept' = IF timers[i].kind = "deleted" THEN swept + 1 ELSE swept
        /\ IF watcher.thumbnail_service
           THEN Swept("_cleanup_thumbnails_delayed", cleanup_orphaned_thumbnails(Cache))
           ELSE UNCHANGED <<thumbs, mapping, last>>
        /\ call' = "_cleanup_thumbnails_delayed"
        /\ result' = timers[i]
        /\ UNCHANGED <<requests, fs, asset_present, clock, events, sweeps, watcher,
                       observers, manga_root_exists, tasks, dispatched, event>>

\* one second passes
Older(x) == [x EXCEPT !.elapsed = IF @ < Delay THEN @ + 1 ELSE @]
Elapse ==
    /\ tasks' = [i \in 1..Len(tasks) |-> Older(tasks[i])]
    /\ timers' = [i \in 1..Len(timers) |->
                     [Older(timers[i]) EXCEPT !.remaining = IF @ > 0 THEN @ - 1 ELSE @]]
    /\ <<tasks', timers'>> # <<tasks, timers>>
    /\ call' = "none"
    /\ result' = <<>>
    /\ UNCHANGED <<requests, cache_vars, watcher, observers, manga_root_exists,
                   dispatched, swept, event>>

NextWatcher ==
    \/ StartWatching \/ StopWatching \/ RemoveRoot \/ MakeRoot
    \/ OnCreated \/ OnDeleted \/ OnMoved \/ OnModified
    \/ RunCreated \/ RunModified \/ RunDeleted \/ WakeCleanup \/ Elapse

SpecWatcher == InitWatcher /\ [][NextWatcher]_vars

(* Specification of the watcher and the cache it feeds: the observer       *)
(* watches the library root recursively and the cache directory lies in    *)
(* it, so the observer also reports the thumbnails the service writes and   *)
(* unlinks.  A burst of at most MaxEvents changes of the library happens;   *)
(* every change and every write or unlink of a thumbnail is reported to     *)
(* the event handler at once; the loop runs the coroutines handed to it in  *)
(* order, and sleeping sweeps wake.  sweeps counts the sleepers, swept the  *)
(* sweeps run.                                                              *)

\* the path of a volume below the root
VolumePath(t) == <<"D", "/">> \o VolumeName(t)

FileEvent(kind, path) ==
    [kind |-> kind, src_path |-> path, dest_path |-> <<>>, is_directory |-> FALSE]

\* the watcher started, with a thumbnail service
Running ==
    [is_running |-> TRUE, observer |-> 1, event_handler |-> TRUE, loop |-> TRUE,
     thumbnail_service |-> TRUE]

\* the observer thread calls on_created / on_deleted / on_modified
OnEvent(queue, ev) ==
    CASE ev.kind = "created" -> on_created(watcher, queue, ev)
      [] ev.kind = "deleted" -> on_deleted(watcher, queue, ev)
      [] ev.kind = "modified" -> on_modified(watcher, queue, ev)

\* the events of one operation, each taken off the list and handed over in turn
RECURSIVE Deliver(_, _)
Deliver(queue, evs) ==
    IF evs = <<>> THEN queue
    ELSE CHOOSE q \in {Deliver(OnEvent(queue, ev), Tail(evs)) : ev \in {Head(evs)}} : TRUE

\* _save_mapping: mapping.json is written, and appears unless it was there
MappingEvents(existed) ==
    (IF existed THEN <<>> ELSE <<FileEvent("created", mapping_file)>>)
    \o <<FileEvent("modified", mapping_file)>>

\* open(thumbnail_path, 'wb') and write: the file appears unless it was
\* there; the record of it is saved next
WriteEvents(k, existed) ==
    (IF existed THEN <<>> ELSE <<FileEvent("created", CacheFile(k))>>)
    \o <<FileEvent("modified", CacheFile(k))>>
    \o MappingEvents(mapping.exists)

\* thumbnail_path.unlink()
UnlinkEvents(k) == <<FileEvent("deleted", CacheFile(k))>>

RECURSIVE UnlinkAll(_)
UnlinkAll(K) ==
    IF K = {} THEN <<>>
    ELSE LET k == CHOOSE x \in K : TRUE IN UnlinkEvents(k) \o UnlinkAll(K \ {k})

\* the volume a path names, "" for any other path
VolumeAt(path) ==
    IF \E t \in Volumes : VolumePath(t) = path
    THEN CHOOSE t \in Volumes : VolumePath(t) = path ELSE ""

InitFeedback ==
    /\ PathIdle /\ ArchiveIdle /\ DirectoryIdle /\ DecodeIdle
    /\ call = "none"
    /\ result = <<>>
    /\ coros = [p \in Callers |-> NoCoroutine]
    /\ fs \in {f \in Libraries : f[Series].exists}
    /\ asset_present = TRUE
    /\ clock = 0
    /\ \E cached \in SUBSET {t \in Volumes : fs[t].exists /\ fs[t].ver > 0} :
          /\ thumbs = [k \in Keys |->
                 IF k = md5(LibraryRoot)
                 THEN [exists |-> TRUE, mtime |-> 0, data |-> InitialRootThumbnail]
                 ELSE IF \E t \in cached : k = md5(t)
                 THEN [exists |-> TRUE, mtime |-> 0,
                       data |-> _create_thumbnail_from_archive(
                                    CHOOSE t \in cached : k = md5(t))]
                 ELSE NoThumbnail]
          /\ mapping =
                 IF cached = {} THEN NoMapping
                 ELSE _save_mapping([k \in Keys |->
                          IF \E t \in cached : k = md5(t)
                          THEN [present |-> TRUE,
                                original_path |-> CHOOSE t \in cached : k = md5(t),
                                created_at |-> 0,
                                file_size |-> fs[CHOOSE t \in cached : k = md5(t)].ver]
                          ELSE NoRecord])
    /\ events = {}
    /\ sweeps = 0
    /\ last = NoCall
    /\ watcher = Running
    /\ observers = <<"started">>
    /\ manga_root_exists = TRUE
    /\ tasks = <<>>
    /\ timers = <<>>
    /\ dispatched = [total |-> 0, deleted |-> 0]
    /\ swept = 0
    /\ event = NoEvent

\* a change of the library and the observer's report of it
LibraryChange(f, ev) ==
    /\ dispatched.total < MaxEvents
    /\ fs' = f
    /\ tasks' = OnEvent(tasks, ev)
    /\ dispatched' = [total |-> dispatched.total + 1,
                      deleted |-> IF ev.kind = "deleted" THEN dispatched.deleted + 1
                                  ELSE dispatched.deleted]
    /\ last' = NoCall
    /\ UNCHANGED <<requests, calls, watcher, observers, manga_root_exists, timers, swept,
                   event, thumbs, mapping, asset_present, clock, events, sweeps>>

VolumeAdded ==
    \E t \in Volumes, v \in 0..MaxVer :
        /\ ~fs[t].exists
        /\ LibraryChange([fs EXCEPT ![t] = [exists |-> TRUE, mtime |-> clock, ver |-> v],
                                    ![Series].mtime = clock],
                         FileEvent("created", VolumePath(t)))

VolumeModified ==
    \E t \in Volumes, v \in 0..MaxVer :
        /\ fs[t].exists
        /\ LibraryChange([fs EXCEPT ![t] = [exists |-> TRUE, mtime |-> clock, ver |-> v]],
                         FileEvent("modified", VolumePath(t)))

VolumeRemoved ==
    \E t \in Volumes :
        /\ fs[t].exists
        /\ LibraryChange([fs EXCEPT ![t] = NoFile, ![Series].mtime = clock],
                         FileEvent("deleted", VolumePath(t)))

\* the loop runs the coroutine handed over first; what it writes and
\* unlinks under the cache directory is reported in turn
Ran(r, evs, sleepers) ==
    /\ \E reported \in {evs} : tasks' = Deliver(Tail(tasks), reported)
    /\ thumbs' = r.thumbs
    /\ mapping' = r.mapping
    /\ sweeps' = sleepers
    /\ last' = [NoCall EXCEPT !.op = Head(tasks).handler, !.ret = r.ret, !.ran = r.ran]
    /\ UNCHANGED <<requests, calls, watcher, observers, manga_root_exists, timers,
                   dispatched, swept, event, fs, asset_present, clock, events>>

RunTask ==
    /\ tasks # <<>>
    /\ \E coro \in {Head(tasks)} : \E t \in {VolumeAt(coro.path)} :
         \E k \in {IF t = "" THEN "" ELSE md5(t)} :
           IF coro.handler = "_handle_file_deleted"
           THEN Ran(Untouched(Cache), <<>>,
                    IF watcher.thumbnail_service THEN sweeps + 1 ELSE sweeps)
           ELSE IF t = ""
           THEN \* a file of the cache: no archive by its name, nothing is generated
                /\ ~is_archive_file(PathName(coro.path))
                /\ Ran(Untouched(Cache), <<>>, sweeps)
           ELSE IF coro.handler = "_handle_file_created"
           THEN \E r \in {_handle_file_created(Cache, t)} :
                    Ran(r, IF r.ran /\ r.ret # None
                           THEN WriteEvents(k, thumbs[k].exists) ELSE <<>>, sweeps)
           ELSE \E r \in {_handle_file_modified(Cache, t)} :
                \E unlinked \in {is_file(t) /\ is_archive_file(VolumeName(t))
                                  /\ thumbs[k].exists} :
                    Ran(r, IF unlinked
                           THEN UnlinkEvents(k)
                                \o (IF r.ret # None THEN WriteEvents(k, FALSE) ELSE <<>>)
                           ELSE <<>>, sweeps)

\* a sweep that sleeps again instead of ending
SweepRearmed ==
    /\ sweeps > 0
    /\ \E r \in {cleanup_orphaned_thumbnails(Cache)} :
           Swept("_cleanup_thumbnails_delayed", r)
    /\ UNCHANGED <<requests, calls, watcher, observers, manga_root_exists, tasks, timers,
                   dispatched, swept, event, fs, asset_present, clock, events, sweeps>>

\* _cleanup_thumbnails_delayed, its sleep over
SweepWakes ==
    /\ sweeps > 0
    /\ sweeps' = sweeps - 1
    /\ swept' = swept + 1
    /\ \E r \in {cleanup_orphaned_thumbnails(Cache)} :
           /\ Swept("_cleanup_thumbnails_delayed", r)
           /\ \E reported \in
                  {UnlinkAll({k \in Keys : thumbs[k].exists /\ ~r.thumbs[k].exists})
                   \o MappingEvents(mapping.exists)} :
                  tasks' = Deliver(tasks, reported)
    /\ UNCHANGED <<requests, calls, watcher, observers, manga_root_exists, timers,
                   dispatched, event, fs, asset_present, clock, events>>

NextFeedback ==
    VolumeAdded \/ VolumeModified \/ VolumeRemoved \/ RunTask \/ SweepWakes

SpecFeedback == InitFeedback /\ [][NextFeedback]_vars

SpecFeedbackLive == SpecFeedback /\ WF_vars(RunTask) /\ WF_vars(SweepWakes)

(* Specification of the event filter: one event, one call *)

InitFilter ==
    /\ PathIdle /\ ArchiveIdle /\ DirectoryIdle /\ DecodeIdle /\ CacheIdle
    /\ call = "none"
    /\ result = FALSE
    /\ watcher = NoWatcher
    /\ observers = <<>>
    /\ manga_root_exists = TRUE
    /\ tasks = <<>>
    /\ timers = <<>>
    /\ dispatched = [total |-> 0, deleted |-> 0]
    /\ swept = 0
    /\ event \in FilterEvents

CallShouldProcess ==
    /\ call = "none"
    /\ call' = "_should_process_event"
    /\ result' = _should_process_event(event)
    /\ UNCHANGED <<inputs, cache_vars>>

NextFilter == CallShouldProcess

SpecFilter == InitFilter /\ [][NextFilter]_vars

-----------------------------------------------------------------------------
(* Claims about path resolution *)

\* the location the handler opens for p, root / normalize_path(p), lies outside the root
EscapesRoot(p) ==
    ~relative_to(resolve(PathJoin(manga_root, normalize_path(p))), manga_root)

\* C1: is_safe_path returns False whenever the path resolves outside the root,
\* and for every non-empty path that starts with "/"; whenever it returns True,
\* root / normalize_path(p) is the root or a descendant of it; the request
\* handler raises the access-denied error for every path that resolves
\* outside the root.
C1_Sandbox ==
    /\ call = "is_safe_path" =>
          /\ EscapesRoot(requested_path) => result.raised = "unsafe"
          /\ (requested_path # <<>> /\ Head(requested_path) = SEP) => result.raised = "unsafe"
          /\ result.raised = "none" => ~EscapesRoot(requested_path)
    /\ call = "_validate_and_normalize_path" =>
          (EscapesRoot(requested_path) => result.raised = "PathTraversalError")

\* the split of a path proper
ExtSet == {archive_extensions[k] : k \in 1..Len(archive_extensions)}
Occurrences(n) == {i \in 1..Len(n) : LowerPiece(n[i]) \in ExtSet}
AtBoundary(n, i) == i = Len(n) \/ n[i + 1] = SEP
Leftmost(S) == CHOOSE i \in S : \A j \in S : i <= j

\* C9: a path holding several archive extensions is split at the leftmost one.
C9_LeftmostBoundary ==
    call = "extract_archive_and_image_paths" =>
        LET n == normalize_path(requested_path)
            occ == Occurrences(n)
        IN  Cardinality(occ) >= 2 =>
                /\ result[1] = SubSeq(n, 1, Leftmost(occ))
                /\ result[2] = LStrip(SubSeq(n, Leftmost(occ) + 1, Len(n)), {SEP})

\* C10: the split happens only at an archive extension that is followed by a
\* separator or the end of the path; a path whose archive extensions all sit
\* inside longer segment names comes back whole with an empty inner part; and
\* a non-empty inner part satisfies archive + "/" + inner = normalized path.
C10_PathBoundary ==
    call = "extract_archive_and_image_paths" =>
        LET n == normalize_path(requested_path)
            occ == Occurrences(n)
        IN  /\ result[1] # n => (Len(result[1]) \in occ /\ AtBoundary(n, Len(result[1])))
            /\ (\A i \in occ : ~AtBoundary(n, i)) => result = <<n, <<>>>>
            /\ result[2] # <<>> => result[1] \o <<SEP>> \o result[2] = n

\* C11: normalizing is idempotent: for every path p,
\* normalize_path(normalize_path(p)) = normalize_path(p).
C11_Idempotent ==
    call = "normalize_path" => normalize_path(result.path) = result.path

-----------------------------------------------------------------------------
(* Claims about name decoding *)

DecodeCalls == {"convert_filename_encoding", "detect_and_convert_encoding", "safe_decode"}

\* the inner part of a request that crosses one archive boundary
Crossing(n) ==
    /\ Cardinality(Occurrences(n)) = 1
    /\ AtBoundary(n, Leftmost(Occurrences(n)))
    /\ Leftmost(Occurrences(n)) + 1 < Len(n)
Inner(n) == SubSeq(n, Leftmost(Occurrences(n)) + 2, Len(n))
Crosses(n) == \E i \in Occurrences(n) : AtBoundary(n, i) /\ i < Len(n)

\* C13: a request ends in the not-found kind (404) when its target does not
\* exist, be it a filesystem node or an entry of an existing archive; in the
\* access-denied kind (403) when the path lies outside the root; in the
\* unsupported-type kind (400) when the target is an existing plain file
\* that is neither an archive nor an image; none of them becomes a 500.
C13_ErrorKinds ==
    call = "handle_request" =>
        LET target == unquote(requested_path)
            n == normalize_path(target)
        IN  IF EscapesRoot(target) THEN result.status = 403
            ELSE /\ (~Crosses(n) /\ directory.kind = "missing") =>
                        result = FileNotFoundError
                 /\ ( /\ Crossing(n)
                      /\ archive.exists /\ ~archive.malformed
                      /\ \A k \in 1..Len(archive.entries) :
                             Text(archive.entries[k]) # Text(Inner(n)) ) =>
                        result.status = 404
                 /\ ( /\ ~Crosses(n)
                      /\ directory.kind = "file"
                      /\ ~is_archive_file(PathName(n))
                      /\ ~is_image_file(PathName(n)) ) =>
                        result = UnsupportedFileTypeError

\* C12: decoding is total: for every text, detector verdict and configured
\* codec list, convert_filename_encoding, detect_and_convert_encoding and
\* safe_decode return a string and never raise.
C12_DecodeTotal ==
    call \in DecodeCalls => result.raised = "none"

-----------------------------------------------------------------------------
(* Claims about the archive listing *)

ZipFamily == {".zip", ".cbz"}
RarFamily == {".rar", ".cbr"}
ListedArchive == call = "list_archive_contents"
ArchiveSuffix == Text(Lower(suffix(archive.name)))

\* C6: list_archive_contents returns an empty list for a path that does not
\* exist and for a file whose extension is none of zip/cbz/rar/cbr, and raises
\* ArchiveError, never an empty list, for an existing zip-family file whose
\* container is malformed.
C6_ListingErrors ==
    ListedArchive =>
        /\ ~archive.exists => result = [raised |-> "none", list |-> <<>>]
        /\ archive.exists /\ ArchiveSuffix \notin ZipFamily \cup RarFamily
              => result = [raised |-> "none", list |-> <<>>]
        /\ archive.exists /\ ArchiveSuffix \in ZipFamily /\ archive.malformed
              => result.raised = "ArchiveError"

\* C6 case reached: a malformed .zip/.cbz file was listed and the call raised
C6_Witness ==
    /\ ListedArchive
    /\ archive.exists /\ archive.malformed /\ ArchiveSuffix \in ZipFamily
    /\ result.raised = "ArchiveError"

Readable ==
    /\ archive.exists /\ ~archive.malformed
    /\ \/ ArchiveSuffix \in ZipFamily
       \/ ArchiveSuffix \in RarFamily /\ rar_available

Count(s, x) == Cardinality({i \in 1..Len(s) : s[i] = x})

ImageEntry(n) == n[Len(n)] # "/" /\ is_image_file(n)

-----------------------------------------------------------------------------
(* Claims about the directory listing *)

ListedDirectory == call = "list_directory"

\* a directory inside the root whose entries can be read
InsideRoot == is_safe_path(manga_root, requested_path) /\ directory.kind = "dir"

Hidden(name) ==
    \/ Text(name) \in {".", "..", "@eaDir", "Thumbs.db", ".DS_Store", ".thumbnails"}
    \/ \E i \in 1..Len(name) : name[i] = "__MACOSX"

Shown(e) ==
    /\ ~Hidden(e.name)
    /\ \/ e.kind = "dir"
       \/ e.kind = "file" /\ (is_image_file(e.name) \/ is_archive_file(e.name))

KindOf(name) == (CHOOSE e \in Elements(directory.entries) : e.name = name).kind

\* C8: for every directory inside the root, list_directory returns exactly the
\* entries that are not hidden and are directories or files with an image or
\* archive extension, all directories before all files and each group in
\* case-insensitive name order.
C8_DirectoryListing ==
    ListedDirectory /\ InsideRoot =>
        /\ Elements(result) = {e.name : e \in {x \in Elements(directory.entries) : Shown(x)}}
        /\ \A i, j \in 1..Len(result) : i < j =>
              /\ result[i] # result[j]
              /\ KindOf(result[j]) = "dir" => KindOf(result[i]) = "dir"
              /\ (KindOf(result[i]) = "dir") = (KindOf(result[j]) = "dir")
                    => ~LexLess(CodePoints(Lower(result[j])), CodePoints(Lower(result[i])))

\* C8 case reached: a listing that dropped a hidden entry, moved a directory
\* ahead of a file that precedes it by name, and holds two files
C8_Witness ==
    /\ ListedDirectory /\ InsideRoot
    /\ Len(result) = 2 /\ Len(directory.entries) = 3
    /\ \E e \in Elements(directory.entries) : Hidden(e.name)
    /\ KindOf(result[1]) = "dir" /\ KindOf(result[2]) = "file"
    /\ LexLess(CodePoints(Lower(result[2])), CodePoints(Lower(result[1])))

-----------------------------------------------------------------------------
(* Claims about the thumbnail cache.  A step whose new value of last names  *)
(* an operation is a completed call of that operation: the unprimed         *)
(* variables are the state it was called in, the primed ones the state it   *)
(* left.                                                                    *)

KeyOf(t) == md5(t)
Recorded(m, k) == m.exists /\ m.doc[k].present

\* get_or_create_thumbnail earlier generated and persisted T's thumbnail
Persisted(t) == thumbs[KeyOf(t)].exists /\ Recorded(mapping, KeyOf(t))

Unmodified(t) == fs[t].exists /\ thumbs[KeyOf(t)].mtime >= fs[t].mtime
ModifiedSince(t) == fs[t].exists /\ thumbs[KeyOf(t)].mtime < fs[t].mtime

HitReturnsPersisted(t) ==
    Persisted(t) /\ Unmodified(t) =>
        /\ last'.ret = thumbs[KeyOf(t)].data
        /\ ~last'.ran
        /\ thumbs' = thumbs /\ mapping' = mapping

NewlyPersisted(t) ==
    /\ last'.ret # None
    /\ thumbs'[KeyOf(t)] = [exists |-> TRUE, mtime |-> clock, data |-> last'.ret]
    /\ Recorded(mapping', KeyOf(t))
    /\ mapping'.doc[KeyOf(t)].original_path = t

\* C2 as stated: with a persisted thumbnail and T unmodified the call returns
\* exactly the persisted bytes without entering the image pipeline; once T's
\* modification time is later than the thumbnail's, the call regenerates and
\* persists a new thumbnail.
C2_HitMiss ==
    [][last'.op = "get_or_create_thumbnail" =>
          /\ HitReturnsPersisted(last'.target)
          /\ Persisted(last'.target) /\ ModifiedSince(last'.target)
                => last'.ran /\ NewlyPersisted(last'.target)]_vars

\* C2 amended: as C2, but once T's modification time is later than the
\* thumbnail's the call enters generation again and persists a new thumbnail
\* whenever generation yields image data; when it yields none the call
\* returns nothing and leaves the stale thumbnail and the mapping as they were.
C2_HitMissWhenGenerated ==
    [][last'.op = "get_or_create_thumbnail" =>
          /\ HitReturnsPersisted(last'.target)
          /\ Persisted(last'.target) /\ ModifiedSince(last'.target)
                => /\ last'.ran
                   /\ \/ NewlyPersisted(last'.target)
                      \/ /\ last'.ret = None
                         /\ thumbs' = thumbs /\ mapping' = mapping]_vars

\* C2 case reached: a volume modified after its thumbnail was persisted has
\* just been given a regenerated thumbnail with other bytes
C2_Witness ==
    /\ last.op = "get_or_create_thumbnail" /\ last.target \in Volumes
    /\ last.found = "stale" /\ last.ran /\ last.ret # None
    /\ fs[last.target].mtime = clock /\ clock > 0
    /\ thumbs[KeyOf(last.target)].data = last.ret
    /\ mapping.doc[KeyOf(last.target)].file_size = fs[last.target].ver
    /\ fs[last.target].ver = MaxVer

\* C3: in every state reached from construction by completed calls and
\* handlers, <key>.jpg exists if and only if the mapping holds a record for
\* <key>.
C3_JpegIffRecord ==
    \A k \in Keys : thumbs[k].exists <=> Recorded(mapping, k)

IsCleanup(op) == op \in {"cleanup_orphaned_thumbnails", "_cleanup_thumbnails_delayed"}

Orphans == {k \in Keys : Recorded(mapping, k) /\ ~fs[mapping.doc[k].original_path].exists}

\* C4: cleanup_orphaned_thumbnails removes the record and the <key>.jpg of
\* every record whose original no longer exists, returns the number of those
\* records, and leaves no record of a non-existent original.
C4_CleanupEffect ==
    [][IsCleanup(last'.op) =>
          /\ \A k \in Orphans : ~Recorded(mapping', k) /\ ~thumbs'[k].exists
          /\ last'.count = Cardinality(Orphans)
          /\ \A k \in Keys : Recorded(mapping', k) => fs[mapping'.doc[k].original_path].exists]_vars

Survivors == {k \in Keys : Recorded(mapping, k) /\ fs[mapping.doc[k].original_path].exists}

\* C5: cleanup_orphaned_thumbnails leaves unchanged the record and the JPEG
\* file of every record whose original still exists, stale or not.
C5_CleanupFrame ==
    [][IsCleanup(last'.op) =>
          \A k \in Survivors :
              /\ Recorded(mapping', k)
              /\ mapping'.doc[k] = mapping.doc[k]
              /\ thumbs'[k] = thumbs[k]]_vars

\* C5 case reached: a cleanup that deleted an orphan has kept a record whose
\* thumbnail is older than its original
C5_Witness ==
    /\ last.op = "cleanup_orphaned_thumbnails" /\ last.count > 0
    /\ \E k \in Survivors :
          thumbs[k].exists /\ thumbs[k].mtime < fs[mapping.doc[k].original_path].mtime

\* C14 as stated: the service is Stopped or Running, at most one observer is
\* active and is_running is true exactly while one is; start_watching moves
\* Stopped to Running and changes nothing while Running; stop_watching moves
\* Running to Stopped and changes nothing while Stopped.
C14_StateMachine ==
    [][ /\ Cardinality(Active') <= 1
        /\ watcher'.is_running <=> Active' # {}
        /\ call' = "start_watching" =>
              IF watcher.is_running THEN UNCHANGED <<watcher, observers>>
              ELSE watcher'.is_running
        /\ call' = "stop_watching" =>
              IF watcher.is_running THEN ~watcher'.is_running
              ELSE UNCHANGED <<watcher, observers>> ]_vars

\* C14, amended: as above, but start_watching moves Stopped to Running exactly
\* when the watched directory exists and the observer starts; otherwise the
\* service stays Stopped.  This holds after any earlier starts and stops.
C14_StateMachineWhenStartable ==
    [][ /\ Cardinality(Active') <= 1
        /\ watcher'.is_running <=> Active' # {}
        /\ call' = "start_watching" =>
              IF watcher.is_running THEN UNCHANGED <<watcher, observers>>
              ELSE watcher'.is_running <=> (manga_root_exists /\ ~result'.failed)
        /\ call' = "stop_watching" =>
              IF watcher.is_running THEN ~watcher'.is_running
              ELSE UNCHANGED <<watcher, observers>> ]_vars

\* a start after a stop has worked again
C14_Witness ==
    /\ call = "start_watching"
    /\ watcher.is_running
    /\ observers = <<"stopped", "started">>

\* the coroutines of the queue that stem from deletions, the sleepers too
FromDeleted(q) == Cardinality({i \in 1..Len(q) : q[i].kind = "deleted"})

Handling(q) == [i \in 1..Len(q) |-> <<q[i].handler, q[i].path>>]
DeletedAtOld(ev) == [ev EXCEPT !.kind = "deleted", !.dest_path = <<>>]
CreatedAtNew(ev) == [ev EXCEPT !.kind = "created", !.src_path = ev.dest_path, !.dest_path = <<>>]

\* C18: a Moved event is handled exactly as a Deleted event at the old path
\* followed by a Created event at the new path, each judged by the filter on
\* its own path, the deletion handling first.
C18_MovedAsDeletedCreated ==
    [][ call' = "on_moved" =>
          Handling(tasks') =
              Handling(on_created(watcher,
                                  on_deleted(watcher, tasks, DeletedAtOld(result')),
                                  CreatedAtNew(result'))) ]_vars

\* the rule the catalog uses for hidden names
Qualifies(ev) ==
    LET name == PathName(ev.src_path)
    IN  IF ev.is_directory
        THEN /\ Text(name) \notin hidden_files
             /\ \A i \in 1..Len(name) : name[i] \notin hidden_patterns
        ELSE /\ is_image_file(name) \/ is_archive_file(name)
             /\ ~is_hidden_file(name)

\* C19: a directory event qualifies iff the name is not a hidden name and
\* holds no hidden pattern; a file event qualifies iff its extension is an
\* image or archive extension and its name is not hidden by the catalog's rule.
C19_EventFilter ==
    call = "_should_process_event" => (result <=> Qualifies(event))

\* what generation makes of the archive's current contents
Current(t) == _create_thumbnail_from_archive(t)
After == [thumbs |-> thumbs', mapping |-> mapping']

C17_Pregenerated ==
    \A t \in Volumes :
        (/\ fs[t].exists /\ fs[t].ver > 0
         /\ \A e \in events : e[2] # t) => thumbs[md5(t)].exists

\* two calls for one target that was not cached, both finished
BothDone(t) ==
    /\ \A p \in Callers : coros[p].pc = "done" /\ coros[p].target = t
    /\ fs[t].exists
    /\ t \in Volumes => fs[t].ver > 0
    /\ t = Series => \E v \in Volumes : fs[v].exists /\ fs[v].ver > 0
LastWriter == CHOOSE p \in Callers : \A q \in Callers : coros[q].order <= coros[p].order

\* C20: however two calls of get_or_create_thumbnail for one target that is
\* not cached interleave, both return thumbnail bytes, and in the end the
\* key has its JPEG and one mapping record, those of the call that wrote last.
C20_ConcurrentGeneration ==
    \A t \in {Series} \cup Volumes :
        BothDone(t) =>
            /\ \A p \in Callers : coros[p].ret # None
            /\ thumbs[md5(t)].exists
            /\ mapping.doc[md5(t)].present
            /\ \E p \in Callers : coros[p].order > 0
            /\ thumbs[md5(t)].data = coros[LastWriter].ret
            /\ thumbs[md5(t)].mtime = coros[LastWriter].at
            /\ mapping.doc[md5(t)].original_path = t
            /\ mapping.doc[md5(t)].created_at = coros[LastWriter].at

\* both calls missed and both generated, the second writing at a later time
C20_Witness ==
    /\ BothDone("R/D/a.zip")
    /\ \A p \in Callers : coros[p].order > 0
    /\ \E p, q \in Callers : coros[p].at < coros[q].at

-----------------------------------------------------------------------------
(* Claims about extraction *)

ListedNames(a) ==
    IF list_archive_contents(a).raised = "none"
    THEN Elements(list_archive_contents(a).list) ELSE {}

\* C25: for every readable archive and every name n that list_archive_contents
\* returns, extract_file_from_archive(archive, n) returns the bytes of an
\* entry whose decoded name is exactly n, in every enumeration order and also
\* when another entry's name ends with n.
C25_ListExtractRoundTrip ==
    /\ call = "extract_file_from_archive"
    /\ Readable
    /\ result.file_path \in ListedNames(archive)
    => \E i \in Named(archive, result.file_path) : result.data = EntryBytes(i)

\* C21: for every archive with at least one image, the bytes the thumbnail is
\* made of are those of an entry named as the first name of the listing,
\* whatever the order of the entries in the container.
C21_ThumbnailSource ==
    /\ call = "_create_thumbnail_from_archive"
    /\ Readable
    /\ ListedNames(archive) # {}
    => \E i \in Named(archive, list_archive_contents(archive).list[1]) :
          result.data = _resize_image(EntryBytes(i))

-----------------------------------------------------------------------------
(* Claims about the watcher after a stop *)

\* a delayed sweep wakes and calls cleanup_orphaned_thumbnails in this step
SweepStarts ==
    /\ call' = "_cleanup_thumbnails_delayed"
    /\ Len(timers') < Len(timers)
    /\ watcher.thumbnail_service

\* a deletion handler handed over earlier runs in this step and starts a sleeper
SleeperStarts ==
    /\ call' = "_handle_file_deleted"
    /\ Len(timers') > Len(timers)

\* C29: while the watcher is Stopped, from the return of stop_watching to the
\* next start_watching, no sweep starts and no deletion handler starts the
\* sleeper of one, also not for deletions and delayed sweeps that were
\* scheduled before the stop.
C29_QuietAfterStop ==
    [][ (~watcher.is_running /\ ~watcher'.is_running) =>
            ~SweepStarts /\ ~SleeperStarts ]_vars

-----------------------------------------------------------------------------
(* Claims about the cache directory under the watched root *)

\* C27: no event of a file that ThumbnailService creates or deletes under the
\* cache directory, and none of the cache directory itself, qualifies.
C27_NoSelfTrigger ==
    call = "_should_process_event" /\ event \in CacheEvents => result = FALSE

-----------------------------------------------------------------------------
(* Claims about the path the handler uses *)

\* the location handle_request opens: manga_root / normalized_path, resolved
Opened(normalized_path) == resolve(PathJoin(manga_root, normalized_path))

\* C24: whenever _validate_and_normalize_path accepts a request path, the
\* location the handler opens for the path it returns is the root or a
\* descendant of it, also when the path still holds percent-escapes.
C24_ValidatedIsUsed ==
    call = "_validate_and_normalize_path" /\ result.raised = "none"
        => relative_to(Opened(result.path), manga_root)

-----------------------------------------------------------------------------
(* Claims about thumbnails derived from an archive *)

\* the cached thumbnail of n was made of an image of archive t that t no longer holds
DerivedFromOld(n, t) ==
    /\ thumbs[md5(n)].exists
    /\ Len(thumbs[md5(n)].data) = 3
    /\ thumbs[md5(n)].data[2] = t
    /\ thumbs[md5(n)].data[3] # fs[t].ver

\* C30: right after the handler of a change has run for archive A, no cached
\* thumbnail that is still valid was made of A's previous contents, neither
\* A's own nor that of A's parent directory.
C30_NoStaleDerived ==
    last.op = "_handle_file_modified" /\ is_file(last.target) =>
        \A n \in Nodes :
            _is_thumbnail_valid(thumbs, md5(n), n) => ~DerivedFromOld(n, last.target)

-----------------------------------------------------------------------------
(* Claims about the mapping document *)

\* the document a sweep leaves when nothing fails
PostSweep == cleanup_orphaned_thumbnails(Cache).mapping

\* C23: a sweep leaves the stored mapping either as it was or as the complete
\* document of the surviving records, also when reading or writing the
\* document fails, and it keeps the record of every original that exists.
C23_AtomicRewrite ==
    [][ call' = "cleanup_orphaned_thumbnails" =>
          /\ mapping' \in {mapping, PostSweep}
          /\ \A k \in Keys :
                (mapping.doc[k].present /\ fs[mapping.doc[k].original_path].exists)
                    => mapping'.doc[k] = mapping.doc[k] ]_vars

-----------------------------------------------------------------------------
(* Claims about concurrent writers of the mapping document *)

Generated(p) == coros[p].order > 0
RecordOf(t) == _load_mapping(mapping)[md5(t)]

\* a thumbnail was generated for an original that exists and has no record
RecordLost ==
    \E p \in Callers :
        /\ Generated(p) /\ fs[coros[p].target].exists
        /\ ~(RecordOf(coros[p].target).present
             /\ RecordOf(coros[p].target).original_path = coros[p].target)

\* the step stores a document made of the one stored now: a completion
\* changes the record of its own key only, a sweep adds nothing and drops
\* the records of missing originals only
StoreIsCurrent ==
    \/ \E p \in Callers :
          /\ coros[p].pc = "resizing" /\ coros'[p].pc = "done"
          /\ \A k \in Keys \ {md5(coros[p].target)} :
                mapping'.doc[k] = _load_mapping(mapping)[k]
    \/ /\ last'.op \in {"cleanup_orphaned_thumbnails", "_cleanup_thumbnails_delayed"}
       /\ \A k \in Keys :
             mapping'.doc[k] =
                 IF _load_mapping(mapping)[k].present
                    /\ fs[_load_mapping(mapping)[k].original_path].exists
                 THEN _load_mapping(mapping)[k] ELSE NoRecord

-----------------------------------------------------------------------------
(* Claims about orphans *)

\* the watcher has been told of the deletion of t and has not handled it yet
DeletionPending(t) == ~fs[t].exists /\ <<"deleted", t>> \in events

Cached(t) == thumbs[md5(t)].exists /\ RecordOf(t).present

Reclaimed(t) == ~thumbs[md5(t)].exists /\ ~RecordOf(t).present

\* C26: when a volume that has a cached thumbnail is deleted and the watcher
\* is told, the cache comes, with no further event, to hold neither the JPEG
\* nor the record of that volume, however the handler, the delayed sweep and
\* the get_or_create_thumbnail calls in flight for the volume are interleaved.
C26_OrphansReclaimed ==
    \A t \in Volumes : (DeletionPending(t) /\ Cached(t)) ~> []Reclaimed(t)

-----------------------------------------------------------------------------
(* Claims about the watcher feeding on its own cache *)

Quiescent == tasks = <<>> /\ sweeps = 0

\* C28: after a finite burst of changes of the library the watcher comes to
\* rest: from some point on no handler and no sweep is pending, and so only
\* finitely many sweeps and generations run, although the thumbnails that
\* sweeps and regenerations unlink and write are themselves reported.
C28_SweepsQuiesce == <>[]Quiescent

\* C28 case reached: the watcher is at rest after the whole burst, having run
\* more sweeps than volumes were deleted, the further ones caused by the
\* thumbnails a sweep unlinked
C28_Witness ==
    /\ Quiescent
    /\ dispatched.total = MaxEvents
    /\ swept > dispatched.deleted /\ dispatched.deleted > 0

=============================================================================
